---- MODULE Spec2Model ----
(***************************************************************************)
(* Verification model of the ADT repository: the left-leaning red-black    *)
(* tree RBTree<Key, Value> (src/rbtree/rbtree.h) and the open-addressing   *)
(* hash maps HashMap / SmallHashMap (src/densemap/hashmap.h).              *)
(***************************************************************************)
EXTENDS Integers, Sequences, FiniteSets, TLC

(***************************************************************************)
(* Bounds of the model.                                                    *)
(***************************************************************************)
\* Tree keys are 1..MaxKey.
MaxKey == 5
\* Tree values are 0..MaxVal; 0 is the value that compares equal to nullptr.
MaxVal == 1
\* At most MaxWild indeterminate pointers of the tree hold a non-null bit pattern
\* at a time.
MaxWild == 1
\* At most MaxNonNull values stored in the tree are other than 0 at a time.
MaxNonNull == 1

TreeKeys == 1..MaxKey
TreeVals == 0..MaxVal

(***************************************************************************)
(* RBTree: pointers and nodes.                                             *)
(*                                                                         *)
(* A Node* is the null pointer (Nil), a pointer to a node (a record that   *)
(* holds the node itself: every node is owned by exactly one link), or an  *)
(* indeterminate non-null bit pattern (Wild).  Bad is the result of an     *)
(* evaluation that dereferenced a pointer that points to no node.          *)
(***************************************************************************)
Nil == [tag |-> "nil"]
Wild == [tag |-> "wild"]
Bad == [tag |-> "bad"]

BLACK == FALSE
RED == TRUE

\* The values a pointer member that no constructor initialises can hold:
\* Node::left, Node::right (the Node constructor sets key, value and color
\* only) and RBTree::root (the RBTree constructor has an empty body).
Indeterminate == {Nil, Wild}

IsNode(p) == p.tag = "node"
IsNil(p) == p.tag = "nil"

\* Node::Node(key, value): left and right are left as they were in memory.
NewNode(key, value, l, r) ==
    [tag |-> "node", key |-> key, value |-> value,
     left |-> l, right |-> r, color |-> RED]

\* p->left and p->right; dereferencing anything but a node is undefined.
Left(p) == IF IsNode(p) THEN p.left ELSE Bad
Right(p) == IF IsNode(p) THEN p.right ELSE Bad

\* Assignments through p; the subtree is lost when the assigned value comes
\* from an evaluation that went wrong.
SetLeft(p, c) == IF ~IsNode(p) \/ c.tag = "bad" THEN Bad ELSE [p EXCEPT !.left = c]
SetRight(p, c) == IF ~IsNode(p) \/ c.tag = "bad" THEN Bad ELSE [p EXCEPT !.right = c]

\* Three-valued conditions: "T", "F", or "U" when evaluating the condition
\* dereferences a pointer that points to no node.
And3(a, b) == IF a = "U" THEN "U" ELSE IF a = "F" THEN "F" ELSE b
Not3(a) == IF a = "U" THEN "U" ELSE IF a = "T" THEN "F" ELSE "T"

\* IsRed(p): false for nullptr, else p->color == RED.
IsRed(p) ==
    IF p.tag = "nil" THEN "F"
    ELSE IF IsNode(p) THEN (IF p.color = RED THEN "T" ELSE "F")
    ELSE "U"

\* ColorFlip(p): flips p, p->left and p->right.
ColorFlip(p) ==
    IF ~IsNode(p) THEN Bad
    ELSE IF ~IsNode(p.left) \/ ~IsNode(p.right) THEN Bad
    ELSE [p EXCEPT !.color = ~p.color,
                   !.left = [p.left EXCEPT !.color = ~p.left.color],
                   !.right = [p.right EXCEPT !.color = ~p.right.color]]

\* RotateLeft as it would be without the exchange of the two colors.
RotateLeftKeepingColors(p) ==
    IF ~IsNode(p) THEN Bad
    ELSE IF ~IsNode(p.right) THEN Bad
    ELSE LET x == p.right
         IN [x EXCEPT !.left = [p EXCEPT !.right = x.left]]

RotateLeft(p) ==
    IF ~IsNode(p) THEN Bad
    ELSE IF ~IsNode(p.right) THEN Bad
    ELSE LET x == p.right
         IN [x EXCEPT !.left = [p EXCEPT !.right = x.left, !.color = RED],
                      !.color = p.color]

RotateRight(p) ==
    IF ~IsNode(p) THEN Bad
    ELSE IF ~IsNode(p.left) THEN Bad
    ELSE LET x == p.left
         IN [x EXCEPT !.right = [p EXCEPT !.left = x.right, !.color = RED],
                      !.color = p.color]

MoveRedLeft(p) ==
    LET f == ColorFlip(p)
    IN IF ~IsNode(f) THEN Bad
       ELSE LET c == IsRed(Left(f.right))
            IN IF c = "U" THEN Bad
               ELSE IF c = "T"
                    THEN ColorFlip(RotateLeft(SetRight(f, RotateRight(f.right))))
                    ELSE f

MoveRedRight(p) ==
    LET f == ColorFlip(p)
    IN IF ~IsNode(f) THEN Bad
       ELSE LET c == IsRed(Left(f.left))
            IN IF c = "U" THEN Bad
               ELSE IF c = "T" THEN ColorFlip(RotateRight(f)) ELSE f

FixUp(p) ==
    IF ~IsNode(p) THEN Bad
    ELSE LET c1 == IsRed(p.right)
             p1 == IF c1 = "U" THEN Bad ELSE IF c1 = "T" THEN RotateLeft(p) ELSE p
             c2 == And3(IsRed(Left(p1)), IsRed(Left(Left(p1))))
             p2 == IF ~IsNode(p1) \/ c2 = "U" THEN Bad
                   ELSE IF c2 = "T" THEN RotateRight(p1) ELSE p1
             c3 == And3(IsRed(Left(p2)), IsRed(Right(p2)))
         IN IF ~IsNode(p2) \/ c3 = "U" THEN Bad
            ELSE IF c3 = "T" THEN ColorFlip(p2) ELSE p2

RECURSIVE DeleteMax(_)
DeleteMax(p) ==
    IF ~IsNode(p) THEN Bad
    ELSE LET c1 == IsRed(p.left)
             p1 == IF c1 = "U" THEN Bad ELSE IF c1 = "T" THEN RotateRight(p) ELSE p
         IN IF ~IsNode(p1) THEN Bad
            ELSE IF IsNil(p1.right) THEN Nil
            ELSE LET c2 == And3(Not3(IsRed(p1.right)), Not3(IsRed(Left(p1.right))))
                     p2 == IF c2 = "U" THEN Bad
                           ELSE IF c2 = "T" THEN MoveRedRight(p1) ELSE p1
                 IN IF ~IsNode(p2) THEN Bad
                    ELSE FixUp(SetRight(p2, DeleteMax(p2.right)))

RECURSIVE DeleteMin(_)
DeleteMin(p) ==
    IF ~IsNode(p) THEN Bad
    ELSE IF IsNil(p.left) THEN Nil
    ELSE LET c == And3(Not3(IsRed(p.left)), Not3(IsRed(Left(p.left))))
             p1 == IF c = "U" THEN Bad ELSE IF c = "T" THEN MoveRedLeft(p) ELSE p
         IN IF ~IsNode(p1) THEN Bad
            ELSE FixUp(SetLeft(p1, DeleteMin(p1.left)))

\* GetInOrderSuccessorNode(p): the leftmost node of p->right, Bad when the
\* walk dereferences a pointer that points to no node.
RECURSIVE LeftMost(_)
LeftMost(p) ==
    IF ~IsNode(p) THEN Bad
    ELSE IF IsNil(p.left) THEN p ELSE LeftMost(p.left)

GetInOrderSuccessorNode(p) == LeftMost(Right(p))

\* Remove(p, key) as it would be if it returned the tree as it is.
RemoveAsNoOp(p, key) == p

RECURSIVE Remove(_, _)
Remove(p, key) ==
    IF ~IsNode(p) THEN Bad
    ELSE IF key < p.key
    THEN LET c == And3(Not3(IsRed(p.left)), Not3(IsRed(Left(p.left))))
             p1 == IF c = "U" THEN Bad ELSE IF c = "T" THEN MoveRedLeft(p) ELSE p
         IN IF ~IsNode(p1) THEN Bad
            ELSE FixUp(SetLeft(p1, Remove(p1.left, key)))
    ELSE LET c1 == IsRed(p.left)
             p1 == IF c1 = "U" THEN Bad ELSE IF c1 = "T" THEN RotateRight(p) ELSE p
         IN IF ~IsNode(p1) THEN Bad
            ELSE IF key = p1.key /\ IsNil(p1.right) THEN Nil
            ELSE LET c2 == And3(Not3(IsRed(p1.right)), Not3(IsRed(Left(p1.right))))
                     p2 == IF c2 = "U" THEN Bad
                           ELSE IF c2 = "T" THEN MoveRedRight(p1) ELSE p1
                 IN IF ~IsNode(p2) THEN Bad
                    ELSE IF key = p2.key
                    THEN LET successor == GetInOrderSuccessorNode(p2)
                         IN IF ~IsNode(successor) THEN Bad
                            ELSE FixUp(SetRight(
                                     [p2 EXCEPT !.value = successor.value,
                                                !.key = successor.key],
                                     DeleteMin(p2.right)))
                    ELSE FixUp(SetRight(p2, Remove(p2.right, key)))

\* Get(p, key): <<"value", v>> or <<"KeyNotFound", 0>> (the exception), or
\* <<"bad", 0>> when the descent dereferences a pointer that points to no node.
RECURSIVE Get(_, _)
Get(p, key) ==
    IF IsNil(p) THEN <<"KeyNotFound", 0>>
    ELSE IF ~IsNode(p) THEN <<"bad", 0>>
    ELSE IF key < p.key THEN Get(p.left, key)
    ELSE IF key > p.key THEN Get(p.right, key)
    ELSE <<"value", p.value>>

\* Insert(p, key, value); l and r are what the new node's left and right hold.
RECURSIVE Insert(_, _, _, _, _)
Insert(p, key, value, l, r) ==
    IF IsNil(p) THEN NewNode(key, value, l, r)
    ELSE IF ~IsNode(p) THEN Bad
    ELSE LET c0 == And3(IsRed(p.left), IsRed(p.right))
             p0 == IF c0 = "U" THEN Bad ELSE IF c0 = "T" THEN ColorFlip(p) ELSE p
             p1 == IF ~IsNode(p0) THEN Bad
                   ELSE IF key = p0.key THEN [p0 EXCEPT !.value = value]
                   ELSE IF key < p0.key
                        THEN SetLeft(p0, Insert(p0.left, key, value, l, r))
                        ELSE SetRight(p0, Insert(p0.right, key, value, l, r))
             c2 == IsRed(Right(p1))
             p2 == IF ~IsNode(p1) \/ c2 = "U" THEN Bad
                   ELSE IF c2 = "T" THEN RotateLeft(p1) ELSE p1
             c3 == And3(IsRed(Left(p2)), IsRed(Left(Left(p2))))
         IN IF ~IsNode(p2) \/ c3 = "U" THEN Bad
            ELSE IF c3 = "T" THEN RotateRight(p2) ELSE p2

\* Traverse(f, root): the sequence of values handed to f, in order; the
\* one-element sequence <<-1>> marks a walk that dereferenced a pointer
\* that points to no node.
RECURSIVE Traverse(_)
Traverse(p) ==
    IF IsNil(p) THEN <<>>
    ELSE IF ~IsNode(p) THEN <<-1>>
    ELSE LET l == Traverse(p.left)
             r == Traverse(p.right)
         IN IF l = <<-1>> \/ r = <<-1>> THEN <<-1>> ELSE l \o <<p.value>> \o r

\* Min(p) and Max(p): the key of the leftmost and of the rightmost node; 0
\* stands for a walk that dereferenced a pointer that points to no node.
RECURSIVE Min(_)
Min(p) ==
    IF ~IsNode(p) THEN 0
    ELSE IF IsNil(p.left) THEN p.key ELSE Min(p.left)

RECURSIVE Max(_)
Max(p) ==
    IF ~IsNode(p) THEN 0
    ELSE IF IsNil(p.right) THEN p.key ELSE Max(p.right)

(***************************************************************************)
(* HashMap / SmallHashMap: arithmetic on unsigned values.                  *)
(***************************************************************************)
\* Bitwise and, bitwise or of two non-negative integers.
RECURSIVE BitAnd(_, _)
BitAnd(a, b) ==
    IF a = 0 \/ b = 0 THEN 0
    ELSE (a % 2) * (b % 2) + 2 * BitAnd(a \div 2, b \div 2)

RECURSIVE BitOr(_, _)
BitOr(a, b) ==
    IF a = 0 THEN b
    ELSE IF b = 0 THEN a
    ELSE (IF a % 2 = 1 \/ b % 2 = 1 THEN 1 ELSE 0) + 2 * BitOr(a \div 2, b \div 2)

RECURSIVE Pow2(_)
Pow2(n) == IF n = 0 THEN 1 ELSE 2 * Pow2(n - 1)

Shr(a, n) == a \div Pow2(n)

\* a - b on unsigned operands.  A difference that wraps is at least 2^31 in
\* the code; it stands here as the largest value an integer of the model
\* holds (it is only ever compared with num_buckets_ / 8).
Sub32(a, b) == IF a >= b THEN a - b ELSE 2147483647

\* A |= (A >> s)
Smear(A, s) == BitOr(A, Shr(A, s))

\* NextPowerOf2(A): the smallest power of two strictly greater than A, by
\* smearing the highest set bit to the right (A < 2^31 here, so the shift by
\* 32 contributes nothing).
NextPowerOf2(A) == Smear(Smear(Smear(Smear(Smear(A, 1), 2), 4), 8), 16) + 1

\* static_cast<unsigned>(NextPowerOf2(AtLeast - 1)) with AtLeast unsigned:
\* for AtLeast = 0 the subtraction wraps to 2^32 - 1, NextPowerOf2 gives 2^32
\* and the cast gives 0.
NextPowerOf2Below(AtLeast) ==
    IF AtLeast = 0 THEN 0 ELSE NextPowerOf2(AtLeast - 1)

\* countLeadingZeros of a 32-bit value.
RECURSIVE BitLength(_)
BitLength(v) == IF v = 0 THEN 0 ELSE 1 + BitLength(v \div 2)

countLeadingZeros(v) == 32 - BitLength(v)

\* Log2_32_Ceil(Value): 32 - countLeadingZeros(Value - 1), Value >= 1 here.
Log2_32_Ceil(Value) == 32 - countLeadingZeros(Value - 1)

Max2(a, b) == IF a >= b THEN a ELSE b

(***************************************************************************)
(* HashMapInfo<int>: the two reserved keys, the hash and the equality.     *)
(***************************************************************************)
EmptyKey == 2147483647
TombstoneKey == -2147483647 - 1

\* (unsigned)(Val * 37U); the keys of the model are small and non-negative.
GetHashValue(Val) == Val * 37

IsEqual(lhs, rhs) == lhs = rhs

(***************************************************************************)
(* The map object.                                                         *)
(*   kind              "HashMap" or "SmallHashMap"                         *)
(*   Small             SmallHashMap::Small (FALSE in a HashMap)            *)
(*   Buckets           the bucket array in use, indexed from 0: the heap   *)
(*                     array, or the inline array of a Small map; <<>> is  *)
(*                     the null pointer                                    *)
(*   num_entries_, num_to_mbstones_                                        *)
(*   InlineBuckets     the template argument InlineBuckets of the          *)
(*                     SmallHashMap (0 in a HashMap)                       *)
(*   num_buckets_      HashMap::num_buckets_ / LargeRep::num_buckets_      *)
(*                     (0 while a SmallHashMap is Small: no LargeRep)      *)
(*   fail              "none", or "assert" (an assertion failed) or "hang" *)
(*                     (a probe loop that never ends): the call did not    *)
(*                     return                                              *)
(* A bucket is [first |-> key, second |-> value]; Dead stands for storage  *)
(* that holds no object (never constructed, or destroyed).                 *)
(***************************************************************************)
\* template parameter InlineBuckets of SmallHashMap: its default
InlineBuckets == 4

Dead == 0 - 1
RawBucket == [first |-> Dead, second |-> Dead]
RawArray(Num) == [i \in 0..(Num - 1) |-> RawBucket]

IsLive(B) == ~IsEqual(B.first, EmptyKey) /\ ~IsEqual(B.first, TombstoneKey)

Failed(m, why) == IF m.fail = "none" THEN [m EXCEPT !.fail = why] ELSE m

getNumBukets(m) ==
    IF m.kind = "SmallHashMap" /\ m.Small THEN m.InlineBuckets ELSE m.num_buckets_

\* initEmpty as it would be if it reset the counters only.
initEmptyCountersOnly(m) ==
    IF m.fail # "none" THEN m
    ELSE [m EXCEPT !.num_entries_ = 0, !.num_to_mbstones_ = 0]

\* initEmpty(): counters to 0, every key to the empty key; asserts that the
\* number of buckets is a power of two (0 passes the test).
initEmpty(m) ==
    LET n == getNumBukets(m)
        z == [m EXCEPT !.num_entries_ = 0, !.num_to_mbstones_ = 0]
    IN IF m.fail # "none" THEN m
       ELSE IF n # 0 /\ BitAnd(n, n - 1) # 0 THEN Failed(z, "assert")
       ELSE [z EXCEPT !.Buckets =
                 [i \in 0..(n - 1) |-> [first |-> EmptyKey, second |-> Dead]]]

\* DestroyAll(): every key and every live value is destroyed.
DestroyAll(m) ==
    IF getNumBukets(m) = 0 THEN m
    ELSE [m EXCEPT !.Buckets = [i \in DOMAIN m.Buckets |-> RawBucket]]

getMinBucketToReserveForEntries(n) ==
    IF n = 0 THEN 0 ELSE NextPowerOf2((n * 4) \div 3 + 1)

\* LookupBucketFor(Val, FoundBucket): [found, bucket, hang]; bucket is the
\* index of FoundBucket, -1 for nullptr.  The probe sequence of a table of
\* n = 2^k buckets has period 2n, so a loop that has not ended after 2n
\* probes never ends.
\* Probe as it would be with a step of one bucket at every probe.
RECURSIVE ProbeLinear(_, _, _, _, _, _)
ProbeLinear(B, n, Val, BucketNo, ProbeAmt, FoundTombstone) ==
    IF ProbeAmt > 2 * n THEN [found |-> FALSE, bucket |-> -1, hang |-> TRUE]
    ELSE IF IsEqual(Val, B[BucketNo].first)
    THEN [found |-> TRUE, bucket |-> BucketNo, hang |-> FALSE]
    ELSE IF IsEqual(B[BucketNo].first, EmptyKey)
    THEN [found |-> FALSE,
          bucket |-> IF FoundTombstone # -1 THEN FoundTombstone ELSE BucketNo,
          hang |-> FALSE]
    ELSE ProbeLinear(B, n, Val, BitAnd(BucketNo + 1, n - 1), ProbeAmt + 1,
                     IF IsEqual(B[BucketNo].first, TombstoneKey) /\ FoundTombstone = -1
                     THEN BucketNo ELSE FoundTombstone)

RECURSIVE Probe(_, _, _, _, _, _)
Probe(B, n, Val, BucketNo, ProbeAmt, FoundTombstone) ==
    IF ProbeAmt > 2 * n THEN [found |-> FALSE, bucket |-> -1, hang |-> TRUE]
    ELSE IF IsEqual(Val, B[BucketNo].first)
    THEN [found |-> TRUE, bucket |-> BucketNo, hang |-> FALSE]
    ELSE IF IsEqual(B[BucketNo].first, EmptyKey)
    THEN [found |-> FALSE,
          bucket |-> IF FoundTombstone # -1 THEN FoundTombstone ELSE BucketNo,
          hang |-> FALSE]
    ELSE Probe(B, n, Val, BitAnd(BucketNo + ProbeAmt, n - 1), ProbeAmt + 1,
               IF IsEqual(B[BucketNo].first, TombstoneKey) /\ FoundTombstone = -1
               THEN BucketNo ELSE FoundTombstone)

LookupBucketFor(m, Val) ==
    LET n == getNumBukets(m)
    IN IF n = 0 THEN [found |-> FALSE, bucket |-> -1, hang |-> FALSE]
       ELSE Probe(m.Buckets, n, Val, BitAnd(GetHashValue(Val), n - 1), 1, -1)

\* moveFromOldBuckets(OldBucketsBegin, OldBucketsend); Old is the sequence of
\* the old buckets.
\* One live old bucket B goes to the bucket that the lookup l of its key found.
MoveBucket(m, B, l) ==
    IF l.hang THEN Failed(m, "hang")
    ELSE IF l.found \/ l.bucket = -1 THEN Failed(m, "assert")
    ELSE [m EXCEPT !.Buckets[l.bucket] = B, !.num_entries_ = m.num_entries_ + 1]

RECURSIVE MoveLoop(_, _, _)
MoveLoop(m, Old, i) ==
    IF i > Len(Old) \/ m.fail # "none" THEN m
    ELSE IF ~IsLive(Old[i]) THEN MoveLoop(m, Old, i + 1)
    ELSE MoveLoop(MoveBucket(m, Old[i], LookupBucketFor(m, Old[i].first)), Old, i + 1)

moveFromOldBuckets(m, Old) == MoveLoop(initEmpty(m), Old, 1)

\* The buckets of an array, in index order, as a sequence.
BucketSeq(B) == [i \in 1..Cardinality(DOMAIN B) |-> B[i - 1]]

RECURSIVE LiveSeq(_, _)
LiveSeq(B, i) ==
    IF i \notin DOMAIN B THEN <<>>
    ELSE (IF IsLive(B[i]) THEN <<B[i]>> ELSE <<>>) \o LiveSeq(B, i + 1)
(***************************************************************************)
(* class HashMap                                                           *)
(***************************************************************************)
\* bool HashMap::AllocateBuckets(unsigned Num); the result is Num # 0.
HashMapAllocateBuckets(m, Num) ==
    [m EXCEPT !.num_buckets_ = Num,
              !.Buckets = IF Num = 0 THEN <<>> ELSE RawArray(Num)]

\* void HashMap::init(unsigned Initnum_entries_): the part after InitBuckets
\* is known.
HashMapInitBuckets(m, InitBuckets) ==
    IF InitBuckets # 0 THEN initEmpty(HashMapAllocateBuckets(m, InitBuckets))
    ELSE [HashMapAllocateBuckets(m, InitBuckets) EXCEPT
              !.num_entries_ = 0, !.num_to_mbstones_ = 0]

\* void HashMap::init(unsigned Initnum_entries_)
HashMapInit(m, Initnum_entries_) ==
    HashMapInitBuckets(m, getMinBucketToReserveForEntries(Initnum_entries_))

\* void HashMap::Grow(unsigned AtLeast): the part after AllocateBuckets, a
\* being the map with its new array and OldBuckets the old array.
HashMapRehash(a, OldBuckets) ==
    IF DOMAIN OldBuckets = {} THEN initEmpty(a)
    ELSE moveFromOldBuckets(a, BucketSeq(OldBuckets))

\* HashMap::Grow as it would be without the minimum of 64 buckets.
HashMapGrowUnfloored(m, AtLeast) ==
    HashMapRehash(HashMapAllocateBuckets(m, NextPowerOf2Below(AtLeast)), m.Buckets)

\* void HashMap::Grow(unsigned AtLeast)
HashMapGrow(m, AtLeast) ==
    HashMapRehash(HashMapAllocateBuckets(m, Max2(64, NextPowerOf2Below(AtLeast))),
                  m.Buckets)

\* void HashMap::shrink_and_clear(): the part after Newnum_buckets_ is known.
HashMapShrinkTo(m, Newnum_buckets_) ==
    IF Newnum_buckets_ = m.num_buckets_ THEN initEmpty(DestroyAll(m))
    ELSE HashMapInit(DestroyAll(m), Newnum_buckets_)

\* void HashMap::shrink_and_clear()
HashMapShrinkAndClear(m) ==
    HashMapShrinkTo(m, IF m.num_entries_ # 0
                       THEN Max2(64, Pow2(Log2_32_Ceil(m.num_entries_) + 1))
                       ELSE 0)

(***************************************************************************)
(* class SmallHashMap                                                      *)
(***************************************************************************)
\* LargeRep SmallHashMap::AllocateBuckets(unsigned Num), stored in the
\* LargeRep of the map; asserts Num > InlineBuckets.
SmallAllocateBuckets(m, Num) ==
    IF ~(Num > m.InlineBuckets) THEN Failed(m, "assert")
    ELSE [m EXCEPT !.num_buckets_ = Num, !.Buckets = RawArray(Num)]

\* void SmallHashMap::init(unsigned InitBuckets)
SmallInit(m, InitBuckets) ==
    IF InitBuckets > m.InlineBuckets
    THEN initEmpty(SmallAllocateBuckets([m EXCEPT !.Small = FALSE], InitBuckets))
    ELSE initEmpty([m EXCEPT !.Small = TRUE, !.num_buckets_ = 0,
                             !.Buckets = RawArray(m.InlineBuckets)])

\* void SmallHashMap::Grow(unsigned AtLeast): the part after AtLeast has been
\* rounded.
SmallGrowTo(m, AtLeast) ==
    IF m.Small
    THEN IF AtLeast < m.InlineBuckets THEN m
         ELSE moveFromOldBuckets(
                  SmallAllocateBuckets([m EXCEPT !.Small = FALSE], AtLeast),
                  LiveSeq(m.Buckets, 0))
    ELSE IF AtLeast <= m.InlineBuckets
         THEN moveFromOldBuckets([m EXCEPT !.Small = TRUE, !.num_buckets_ = 0,
                                           !.Buckets = RawArray(m.InlineBuckets)],
                                 BucketSeq(m.Buckets))
         ELSE moveFromOldBuckets(SmallAllocateBuckets(m, AtLeast),
                                 BucketSeq(m.Buckets))

\* SmallHashMap::Grow as it would be without the rounding of AtLeast to a
\* power of two of at least 64.
SmallGrowUnrounded(m, AtLeast) == SmallGrowTo(m, AtLeast)

\* void SmallHashMap::Grow(unsigned AtLeast)
SmallGrow(m, AtLeast) ==
    SmallGrowTo(m, IF AtLeast >= m.InlineBuckets
                   THEN Max2(64, NextPowerOf2Below(AtLeast))
                   ELSE AtLeast)

\* void SmallHashMap::shrink_and_clear(): the part after Newnum_buckets_ is
\* known.
SmallShrinkTo(m, Newnum_buckets_) ==
    IF (m.Small /\ Newnum_buckets_ <= m.InlineBuckets)
       \/ (~m.Small /\ Newnum_buckets_ = m.num_buckets_)
    THEN initEmpty(DestroyAll(m))
    ELSE SmallInit(DestroyAll(m), Newnum_buckets_)

\* 1 << (Log2_32_Ceil(OldSize) + 1), raised to 64 when it lies strictly
\* between InlineBuckets and 64.
SmallShrinkSize(m, n0) == IF n0 > m.InlineBuckets /\ n0 < 64 THEN 64 ELSE n0

\* void SmallHashMap::shrink_and_clear()
SmallShrinkAndClear(m) ==
    SmallShrinkTo(m, IF m.num_entries_ # 0
                     THEN SmallShrinkSize(m, Pow2(Log2_32_Ceil(m.num_entries_) + 1))
                     ELSE 0)

(***************************************************************************)
(* class HashMapBase: the calls that the derived class implements, and the *)
(* operations of the map.  Each operation yields the map after the call;   *)
(* the ones that return something yield [m |-> the map, ...].              *)
(***************************************************************************)
\* Grow as it would be if it left the table as it is.
GrowNothing(m, AtLeast) == m

Grow(m, AtLeast) ==
    IF m.fail # "none" THEN m
    ELSE IF m.kind = "HashMap" THEN HashMapGrow(m, AtLeast)
    ELSE SmallGrow(m, AtLeast)

shrink_and_clear(m) ==
    IF m.kind = "HashMap" THEN HashMapShrinkAndClear(m) ELSE SmallShrinkAndClear(m)

\* TakeBucket as it would be if it left the tombstone count alone.
TakeBucketKeepingTombstones(m, the_bucket_) ==
    IF m.fail # "none" THEN [m |-> m, bucket |-> -1]
    ELSE IF the_bucket_ = -1 THEN [m |-> Failed(m, "assert"), bucket |-> -1]
    ELSE [m |-> [m EXCEPT !.num_entries_ = m.num_entries_ + 1],
          bucket |-> the_bucket_]

\* InsertIntoBucketImpl, from assert(the_bucket_) on: the entry count goes up
\* and, when the bucket held a tombstone, the tombstone count goes down.
TakeBucket(m, the_bucket_) ==
    IF m.fail # "none" THEN [m |-> m, bucket |-> -1]
    ELSE IF the_bucket_ = -1 THEN [m |-> Failed(m, "assert"), bucket |-> -1]
    ELSE [m |-> [m EXCEPT
                   !.num_entries_ = m.num_entries_ + 1,
                   !.num_to_mbstones_ =
                       IF ~IsEqual(m.Buckets[the_bucket_].first, EmptyKey)
                       THEN Sub32(m.num_to_mbstones_, 1)
                       ELSE m.num_to_mbstones_],
          bucket |-> the_bucket_]

\* InsertIntoBucketImpl: LookupBucketFor(Lookup, the_bucket_) after Grow; l is
\* the result of the lookup in the map m that Grow left.
Relocate(m, l) ==
    IF l.hang THEN [m |-> Failed(m, "hang"), bucket |-> -1]
    ELSE TakeBucket(m, l.bucket)

Regrow(m, Key) ==
    IF m.fail # "none" THEN [m |-> m, bucket |-> -1]
    ELSE Relocate(m, LookupBucketFor(m, Key))

\* InsertIntoBucketImpl as it would be without its two tests of the load.
InsertIntoBucketImplUnchecked(m, Key, the_bucket_) == TakeBucket(m, the_bucket_)

\* InsertIntoBucketImpl as it would be if it kept the bucket found before
\* Grow instead of looking the key up again.
InsertIntoBucketImplStale(m, Key, the_bucket_) ==
    IF (m.num_entries_ + 1) * 4 >= getNumBukets(m) * 3
    THEN TakeBucket(Grow(m, getNumBukets(m) * 2), the_bucket_)
    ELSE IF Sub32(getNumBukets(m), (m.num_entries_ + 1) + m.num_to_mbstones_)
                <= getNumBukets(m) \div 8
    THEN TakeBucket(Grow(m, getNumBukets(m)), the_bucket_)
    ELSE TakeBucket(m, the_bucket_)

\* InsertIntoBucketImpl(Key, Lookup, the_bucket_): [m, bucket]
InsertIntoBucketImpl(m, Key, the_bucket_) ==
    IF (m.num_entries_ + 1) * 4 >= getNumBukets(m) * 3
    THEN Regrow(Grow(m, getNumBukets(m) * 2), Key)
    ELSE IF Sub32(getNumBukets(m), (m.num_entries_ + 1) + m.num_to_mbstones_)
                <= getNumBukets(m) \div 8
    THEN Regrow(Grow(m, getNumBukets(m)), Key)
    ELSE TakeBucket(m, the_bucket_)

\* InsertIntoBucket, after InsertIntoBucketImpl returned i: the key and the
\* value are written to the bucket.
Construct(i, Key, Value) ==
    IF i.m.fail # "none" THEN i
    ELSE [m |-> [i.m EXCEPT !.Buckets[i.bucket] = [first |-> Key, second |-> Value]],
          bucket |-> i.bucket]

\* InsertIntoBucket(the_bucket_, Key, Values...): [m, bucket]
InsertIntoBucket(m, the_bucket_, Key, Value) ==
    Construct(InsertIntoBucketImpl(m, Key, the_bucket_), Key, Value)

\* TryEmplaceAt as it would be if it assigned the value to an entry that is
\* already there.
TryEmplaceAtOverwriting(m, Key, Value, l) ==
    IF l.hang THEN [m |-> Failed(m, "hang"), bucket |-> -1, inserted |-> FALSE]
    ELSE IF l.found
    THEN [m |-> [m EXCEPT !.Buckets[l.bucket].second = Value],
          bucket |-> l.bucket, inserted |-> FALSE]
    ELSE [inserted |-> TRUE] @@ InsertIntoBucket(m, l.bucket, Key, Value)

\* try_emplace, l being the result of its LookupBucketFor
TryEmplaceAt(m, Key, Value, l) ==
    IF l.hang THEN [m |-> Failed(m, "hang"), bucket |-> -1, inserted |-> FALSE]
    ELSE IF l.found THEN [m |-> m, bucket |-> l.bucket, inserted |-> FALSE]
    ELSE [inserted |-> TRUE] @@ InsertIntoBucket(m, l.bucket, Key, Value)

\* try_emplace(Key, Args...) and insert(KV): [m, bucket, inserted]
try_emplace(m, Key, Value) == TryEmplaceAt(m, Key, Value, LookupBucketFor(m, Key))

\* FindAndConstructAt as it would be if it took a bucket for the key whether
\* or not the key was found.
FindAndConstructAtAlwaysNew(m, Key, l) ==
    IF l.hang THEN [m |-> Failed(m, "hang"), bucket |-> -1]
    ELSE InsertIntoBucket(m, l.bucket, Key, 0)

\* FindAndConstruct, l being the result of its LookupBucketFor
FindAndConstructAt(m, Key, l) ==
    IF l.hang THEN [m |-> Failed(m, "hang"), bucket |-> -1]
    ELSE IF l.found THEN [m |-> m, bucket |-> l.bucket]
    ELSE InsertIntoBucket(m, l.bucket, Key, 0)

\* FindAndConstruct(Key): [m, bucket]; a new value is ValueT(), 0.
FindAndConstruct(m, Key) == FindAndConstructAt(m, Key, LookupBucketFor(m, Key))

\* EraseAt as it would be if it wrote the empty key where the tombstone
\* belongs.
EraseAtLeavingEmpty(m, l) ==
    IF l.hang THEN [m |-> Failed(m, "hang"), erased |-> FALSE]
    ELSE IF ~l.found THEN [m |-> m, erased |-> FALSE]
    ELSE [m |-> [m EXCEPT !.Buckets[l.bucket] =
                              [first |-> EmptyKey, second |-> Dead],
                          !.num_entries_ = Sub32(m.num_entries_, 1)],
          erased |-> TRUE]

\* EraseAt as it would be if it did not count the tombstone it writes.
EraseAtUncounted(m, l) ==
    IF l.hang THEN [m |-> Failed(m, "hang"), erased |-> FALSE]
    ELSE IF ~l.found THEN [m |-> m, erased |-> FALSE]
    ELSE [m |-> [m EXCEPT !.Buckets[l.bucket] =
                              [first |-> TombstoneKey, second |-> Dead],
                          !.num_entries_ = Sub32(m.num_entries_, 1)],
          erased |-> TRUE]

\* EraseAt as it would be if it adjusted the two counters and left the
\* bucket as it is.
EraseAtCountersOnly(m, l) ==
    IF l.hang THEN [m |-> Failed(m, "hang"), erased |-> FALSE]
    ELSE IF ~l.found THEN [m |-> m, erased |-> FALSE]
    ELSE [m |-> [m EXCEPT !.num_entries_ = Sub32(m.num_entries_, 1),
                          !.num_to_mbstones_ = m.num_to_mbstones_ + 1],
          erased |-> TRUE]

\* erase, l being the result of its LookupBucketFor
EraseAt(m, l) ==
    IF l.hang THEN [m |-> Failed(m, "hang"), erased |-> FALSE]
    ELSE IF ~l.found THEN [m |-> m, erased |-> FALSE]
    ELSE [m |-> [m EXCEPT !.Buckets[l.bucket] =
                              [first |-> TombstoneKey, second |-> Dead],
                          !.num_entries_ = Sub32(m.num_entries_, 1),
                          !.num_to_mbstones_ = m.num_to_mbstones_ + 1],
          erased |-> TRUE]

\* erase(Val): [m, erased]
erase(m, Val) == EraseAt(m, LookupBucketFor(m, Val))

\* clear as it would be if it never called shrink_and_clear.
clearInPlace(m) ==
    IF m.num_entries_ = 0 /\ m.num_to_mbstones_ = 0 THEN m
    ELSE [m EXCEPT !.Buckets = [i \in DOMAIN m.Buckets |->
                                   [first |-> EmptyKey, second |-> Dead]],
                   !.num_entries_ = 0,
                   !.num_to_mbstones_ = 0]

\* clear as it would be if it took shrink_and_clear for every table that is
\* not clear already.
clearAlwaysShrinking(m) ==
    IF m.num_entries_ = 0 /\ m.num_to_mbstones_ = 0 THEN m
    ELSE shrink_and_clear(m)

\* clear(), for trivially copyable keys and values
clear(m) ==
    IF m.num_entries_ = 0 /\ m.num_to_mbstones_ = 0 THEN m
    ELSE IF m.num_entries_ * 4 < getNumBukets(m) /\ getNumBukets(m) > 64
    THEN shrink_and_clear(m)
    ELSE [m EXCEPT !.Buckets = [i \in DOMAIN m.Buckets |->
                                   [first |-> EmptyKey, second |-> Dead]],
                   !.num_entries_ = 0,
                   !.num_to_mbstones_ = 0]

\* reserve as it would be if it called Grow whatever the capacity is.
reserveUnguarded(m, n) == Grow(m, getMinBucketToReserveForEntries(n))

\* reserve(num_entries_)
reserve(m, n) ==
    IF getMinBucketToReserveForEntries(n) > getNumBukets(m)
    THEN Grow(m, getMinBucketToReserveForEntries(n))
    ELSE m

\* count and lookup, l being the result of their LookupBucketFor
LookupAt(m, l) ==
    [hang |-> l.hang,
     count |-> IF l.found THEN 1 ELSE 0,
     value |-> IF l.found THEN m.Buckets[l.bucket].second ELSE 0]

\* count(Val) and lookup(Val): [count, value]; lookup gives ValueT() on a miss.
lookup(m, Val) == LookupAt(m, LookupBucketFor(m, Val))

\* The object before its constructor has run.
NoMap == [kind |-> "none", Small |-> FALSE, Buckets |-> <<>>, num_entries_ |-> 0,
          num_to_mbstones_ |-> 0, num_buckets_ |-> 0, InlineBuckets |-> 0,
          fail |-> "none"]

\* explicit HashMap(unsigned InitialReserve = 0)
NewHashMap(InitialReserve) ==
    HashMapInit([NoMap EXCEPT !.kind = "HashMap"], InitialReserve)

\* explicit SmallHashMap(unsigned NumInitBuckets = 0)
NewSmallHashMap(NumInitBuckets) ==
    SmallInit([NoMap EXCEPT !.kind = "SmallHashMap", !.InlineBuckets = InlineBuckets],
              NumInitBuckets)

\* SmallHashMap<KeyT, ValueT, N>(NumInitBuckets)
NewSmallHashMapOf(N, NumInitBuckets) ==
    SmallInit([NoMap EXCEPT !.kind = "SmallHashMap", !.InlineBuckets = N],
              NumInitBuckets)

(***************************************************************************)
(* class HashMapIterator: an iterator is the index ptr of its bucket; the  *)
(* index getNumBukets() is the end pointer.                                *)
(***************************************************************************)
\* AdvancePastEmptyBuckets as it would be if it stopped at a tombstone.
RECURSIVE AdvancePastEmptyOnly(_, _, _)
AdvancePastEmptyOnly(B, ptr, end) ==
    IF ptr # end /\ IsEqual(B[ptr].first, EmptyKey)
    THEN AdvancePastEmptyOnly(B, ptr + 1, end)
    ELSE ptr

\* void AdvancePastEmptyBuckets(): the ptr it leaves
RECURSIVE AdvancePastEmptyBuckets(_, _, _)
AdvancePastEmptyBuckets(B, ptr, end) ==
    IF ptr # end /\ (IsEqual(B[ptr].first, EmptyKey)
                        \/ IsEqual(B[ptr].first, TombstoneKey))
    THEN AdvancePastEmptyBuckets(B, ptr + 1, end)
    ELSE ptr

\* iterator end()
End(m) == getNumBukets(m)

\* iterator begin()
Begin(m) ==
    IF m.num_entries_ = 0 THEN End(m)
    ELSE AdvancePastEmptyBuckets(m.Buckets, 0, End(m))

\* HashMapIterator &operator++()
Increment(m, ptr) == AdvancePastEmptyBuckets(m.Buckets, ptr + 1, End(m))

\* for (auto &p : m): the buckets the loop body sees, in order, from the
\* iterator it to end().
RECURSIVE IterateFrom(_, _)
IterateFrom(m, it) ==
    IF it = End(m) THEN <<>>
    ELSE <<it>> \o IterateFrom(m, Increment(m, it))

(***************************************************************************)
(* HashMapInfo<T> (src/hashmap_info.h): the reserved keys and the equality *)
(* of every key type that has key traits.                                  *)
(*                                                                         *)
(* A value of an integer or pointer type is its bit pattern, a sequence of *)
(* bits with the least significant bit first; the arithmetic is the        *)
(* arithmetic of the type's width (two's complement, wrapping).            *)
(***************************************************************************)
\* The w-bit pattern of the non-negative number v.
RECURSIVE IntBits(_, _)
IntBits(v, w) == IF w = 0 THEN <<>> ELSE <<v % 2>> \o IntBits(v \div 2, w - 1)

\* ~x
BitNot(x) == [i \in 1..Len(x) |-> 1 - x[i]]

\* x - 1: the bits up to and including the lowest set bit are flipped (all
\* of them when x is 0: the subtraction wraps).
BitDec(x) ==
    [i \in 1..Len(x) |-> IF \A j \in 1..(i - 1) : x[j] = 0 THEN 1 - x[i] ELSE x[i]]

\* x + 1
BitInc(x) ==
    [i \in 1..Len(x) |-> IF \A j \in 1..(i - 1) : x[j] = 1 THEN 1 - x[i] ELSE x[i]]

\* -x
BitNeg(x) == BitInc(BitNot(x))

\* x << s in the width of x
BitShl(x, s) == [i \in 1..Len(x) |-> IF i <= s THEN 0 ELSE x[i - s]]

\* Conversion of x to an integer type of w bits: truncation, or sign
\* extension of a signed x, zero extension of an unsigned one.
BitConvert(x, w, signed) ==
    [i \in 1..w |-> IF i <= Len(x) THEN x[i]
                    ELSE IF signed THEN x[Len(x)] ELSE 0]

\* The widths of the types (LP64): int, and std::size_t / uintptr_t / long.
IntWidth == 32
LongWidth == 64

\* The scalar key types with key traits; T* stands by its pointee alignments.
ScalarTypes ==
    {"char", "unsigned short", "unsigned", "unsigned long", "unsigned long long",
     "short", "int", "long", "long long", "std::string", "hash_code"}

\* log2(alignof(T)) of the pointees T of the model: alignments 1, 2, 4, 8, 16.
MaxLowBits == 4

\* A key type: a scalar type, T* with NumLowBitsAvailable = low, or a pair
\* of two scalar types.
KeyTypes ==
    [name : ScalarTypes, low : {0}, first : {""}, second : {""}]
    \cup [name : {"T*"}, low : 0..MaxLowBits, first : {""}, second : {""}]
    \cup [name : {"std::pair"}, low : {0},
          first : {"char", "int", "std::string"},
          second : {"unsigned", "long", "std::string"}]

\* std::string(reinterpret_cast<const char*>(p), 0) for any p: no character
\* is copied, the string is the empty string.
StringOfNoChars == [chars |-> <<>>]

\* GetEmptyKey() of the scalar type T
ScalarEmptyKey(T) ==
    CASE T = "char" -> BitConvert(BitNot(IntBits(0, IntWidth)), 8, TRUE)
      [] T = "unsigned short" -> BitConvert(IntBits(65535, IntWidth), 16, TRUE)
      [] T = "unsigned" -> BitNot(IntBits(0, IntWidth))
      [] T = "unsigned long" -> BitNot(IntBits(0, LongWidth))
      [] T = "unsigned long long" -> BitNot(IntBits(0, LongWidth))
      [] T = "short" -> BitConvert(IntBits(32767, IntWidth), 16, TRUE)
      [] T = "int" -> IntBits(2147483647, IntWidth)
      [] T = "long" -> BitDec(BitShl(IntBits(1, LongWidth), LongWidth - 1))
      [] T = "long long" -> BitNot(BitShl(IntBits(1, LongWidth), LongWidth - 1))
      [] T = "std::string" -> StringOfNoChars
      [] T = "hash_code" -> BitConvert(BitNeg(IntBits(1, IntWidth)), LongWidth, TRUE)

\* GetTombstoneKey() of the scalar type T
ScalarTombstoneKey(T) ==
    CASE T = "char" -> BitConvert(BitDec(BitNot(IntBits(0, IntWidth))), 8, TRUE)
      [] T = "unsigned short" -> BitConvert(BitDec(IntBits(65535, IntWidth)), 16, TRUE)
      [] T = "unsigned" -> BitDec(BitNot(IntBits(0, IntWidth)))
      [] T = "unsigned long" -> BitDec(BitNot(IntBits(0, LongWidth)))
      [] T = "unsigned long long" -> BitDec(BitNot(IntBits(0, LongWidth)))
      [] T = "short" -> BitConvert(BitDec(BitNeg(IntBits(32767, IntWidth))), 16, TRUE)
      [] T = "int" -> BitDec(BitNeg(IntBits(2147483647, IntWidth)))
      [] T = "long" -> BitDec(ScalarEmptyKey("long"))
      [] T = "long long" ->
             BitDec(BitNeg(BitNot(BitShl(IntBits(1, LongWidth), LongWidth - 1))))
      [] T = "std::string" -> StringOfNoChars
      [] T = "hash_code" -> BitConvert(BitNeg(IntBits(2, IntWidth)), LongWidth, TRUE)

\* A key of the scalar type T that a client inserts: the number 1, the
\* string "a".
ScalarClientKey(T) ==
    CASE T = "char" -> IntBits(1, 8)
      [] T \in {"unsigned short", "short"} -> IntBits(1, 16)
      [] T \in {"unsigned", "int"} -> IntBits(1, IntWidth)
      [] T = "std::string" -> [chars |-> <<97>>]
      [] OTHER -> IntBits(1, LongWidth)

\* HashMapInfo<T*>: static_cast<uintptr_t>(-1) and (-2), shifted left by
\* NumLowBitsAvailable.
PointerEmptyKey(low) ==
    BitShl(BitConvert(BitNeg(IntBits(1, IntWidth)), LongWidth, TRUE), low)
PointerTombstoneKey(low) ==
    BitShl(BitConvert(BitNeg(IntBits(2, IntWidth)), LongWidth, TRUE), low)

GetEmptyKeyOf(T) ==
    IF T.name = "T*" THEN PointerEmptyKey(T.low)
    ELSE IF T.name = "std::pair"
    THEN [first |-> ScalarEmptyKey(T.first), second |-> ScalarEmptyKey(T.second)]
    ELSE ScalarEmptyKey(T.name)

GetTombstoneKeyOf(T) ==
    IF T.name = "T*" THEN PointerTombstoneKey(T.low)
    ELSE IF T.name = "std::pair"
    THEN [first |-> ScalarTombstoneKey(T.first),
          second |-> ScalarTombstoneKey(T.second)]
    ELSE ScalarTombstoneKey(T.name)

ClientKeyOf(T) ==
    IF T.name = "T*" THEN BitShl(IntBits(1, LongWidth), MaxLowBits)
    ELSE IF T.name = "std::pair"
    THEN [first |-> ScalarClientKey(T.first), second |-> ScalarClientKey(T.second)]
    ELSE ScalarClientKey(T.name)

\* How the library lays a std::string out: "own" when every string object
\* keeps its characters in a buffer of its own (also an empty string: the
\* buffer inside the object), "shared" when all empty strings share one
\* static representation.
StringLayouts == {"own", "shared"}

\* s.data() of the string object named obj.
StringData(layout, s, obj) ==
    IF layout = "shared" /\ s.chars = <<>> THEN "empty_rep" ELSE obj

\* HashMapInfo<std::string>::IsEqual(std::string lhs, std::string rhs): lhs
\* and rhs are copies of the arguments, each GetEmptyKey() and
\* GetTombstoneKey() a new temporary.
StringIsEqual(layout, lhs, rhs) ==
    IF StringData(layout, rhs, "rhs") = StringData(layout, ScalarEmptyKey("std::string"), "empty")
    THEN StringData(layout, lhs, "lhs") = StringData(layout, ScalarEmptyKey("std::string"), "empty")
    ELSE IF StringData(layout, rhs, "rhs")
                = StringData(layout, ScalarTombstoneKey("std::string"), "tombstone")
    THEN StringData(layout, lhs, "lhs")
             = StringData(layout, ScalarTombstoneKey("std::string"), "tombstone")
    ELSE lhs.chars = rhs.chars

ScalarIsEqual(layout, T, lhs, rhs) ==
    IF T = "std::string" THEN StringIsEqual(layout, lhs, rhs) ELSE lhs = rhs

\* HashMapInfo<T>::IsEqual(lhs, rhs)
IsEqualOf(layout, T, lhs, rhs) ==
    IF T.name = "std::pair"
    THEN /\ ScalarIsEqual(layout, T.first, lhs.first, rhs.first)
         /\ ScalarIsEqual(layout, T.second, lhs.second, rhs.second)
    ELSE ScalarIsEqual(layout, T.name, lhs, rhs)

(***************************************************************************)
(* hash_combine and hash_combine_range (src/densemap/hashing.h).           *)
(*                                                                         *)
(* A byte is a number; a value is the sequence of the bytes of its object  *)
(* representation; a buffer is a sequence of 64 bytes.  Byte 0 stands for  *)
(* a byte of the buffer that was never written.  Both functions feed the   *)
(* same primitives (hash_short, hash_state::create, mix, finalize): what a *)
(* primitive returns is the record of what it was given, so two results    *)
(* are equal exactly when the primitives received the same bytes and the   *)
(* same lengths in the same order.                                         *)
(***************************************************************************)
BufferSize == 64

\* get_execution_seed(): the same value at every call of one execution.
get_execution_seed == "seed"

\* hash_short(s, length, seed): reads s[0 .. length).
hash_short(s, length, seed) ==
    [fn |-> "hash_short", data |-> <<SubSeq(s, 1, length)>>,
     length |-> length, seed |-> seed]

\* hash_state::create(s, seed): the initial state with the 64 bytes at s
\* mixed in.
create(s, seed) == [seed |-> seed, mixed |-> <<SubSeq(s, 1, BufferSize)>>]

\* hash_state::mix(s): mixes the 64 bytes at s in.
mix(state, s) == [state EXCEPT !.mixed = Append(@, SubSeq(s, 1, BufferSize))]

\* hash_state::finalize(length)
finalize(state, length) ==
    [fn |-> "finalize", data |-> state.mixed, length |-> length, seed |-> state.seed]

\* std::rotate(buffer, buffer + middle, buffer_end)
std_rotate(buffer, middle) ==
    SubSeq(buffer, middle + 1, Len(buffer)) \o SubSeq(buffer, 1, middle)

\* memcpy(buffer + at, data + offset, n)
StoreBytes(buffer, at, data, offset, n) ==
    [i \in 1..Len(buffer) |->
        IF i > at /\ i <= at + n THEN data[offset + (i - at)] ELSE buffer[i]]

\* hash_combine_recursive_helper(): buffer not initialised, state unset;
\* with the arguments 0 and buffer that hash_combine hands to combine.
NewHelper ==
    [buffer |-> [i \in 1..BufferSize |-> 0], buffer_ptr |-> 0, length |-> 0,
     state |-> [seed |-> get_execution_seed, mixed |-> <<>>],
     seed |-> get_execution_seed, aborted |-> FALSE]

\* store_and_advance(buffer_ptr, buffer_end, value, offset): [ok, h]
store_and_advance(h, value, offset) ==
    IF h.buffer_ptr + (Len(value) - offset) > BufferSize
    THEN [ok |-> FALSE, h |-> h]
    ELSE [ok |-> TRUE,
          h |-> [h EXCEPT
                   !.buffer = StoreBytes(h.buffer, h.buffer_ptr, value, offset,
                                         Len(value) - offset),
                   !.buffer_ptr = h.buffer_ptr + (Len(value) - offset)]]

\* combine_data, after the first store_and_advance failed: the head of data
\* fills the buffer, the buffer is mixed into the state.
FlushChunk(h, data) ==
    [h EXCEPT
       !.buffer = StoreBytes(h.buffer, h.buffer_ptr, data, 0, BufferSize - h.buffer_ptr),
       !.state = IF h.length = 0
                 THEN create(StoreBytes(h.buffer, h.buffer_ptr, data, 0,
                                        BufferSize - h.buffer_ptr), h.seed)
                 ELSE mix(h.state, StoreBytes(h.buffer, h.buffer_ptr, data, 0,
                                              BufferSize - h.buffer_ptr)),
       !.length = IF h.length = 0 THEN 64 ELSE h.length + 64,
       !.buffer_ptr = 0]

\* combine_data, the second store_and_advance, r being its result.
StoreRest(h, r) == IF r.ok THEN r.h ELSE [h EXCEPT !.aborted = TRUE]

\* combine_data(length, buffer_ptr, buffer_end, data)
combine_data(h, data) ==
    IF store_and_advance(h, data, 0).ok THEN store_and_advance(h, data, 0).h
    ELSE StoreRest(FlushChunk(h, data),
                   store_and_advance(FlushChunk(h, data), data,
                                     BufferSize - h.buffer_ptr))

\* combine(length, buffer_ptr, buffer_end) as it would be without std::rotate.
combineUnrotated(h) ==
    IF h.length = 0 THEN hash_short(h.buffer, h.buffer_ptr, h.seed)
    ELSE finalize(mix(h.state, h.buffer), h.length + h.buffer_ptr)

\* combine(length, buffer_ptr, buffer_end): the end of the recursion.
combine(h) ==
    IF h.length = 0 THEN hash_short(h.buffer, h.buffer_ptr, h.seed)
    ELSE finalize(mix(h.state, std_rotate(h.buffer, h.buffer_ptr)),
                  h.length + h.buffer_ptr)

\* The loop while (s_begin != s_aligned_end) of hash_combine_range_impl.
RECURSIVE MixAligned(_, _, _, _)
MixAligned(state, s, s_begin, s_aligned_end) ==
    IF s_begin = s_aligned_end THEN state
    ELSE MixAligned(mix(state, SubSeq(s, s_begin + 1, s_begin + 64)), s,
                    s_begin + 64, s_aligned_end)

\* length & ~63 and length & 63
AlignedLength(length) == length - (length % 64)

\* hash_combine_range_impl(ValueT *first, ValueT *last) on the bytes s.
hash_combine_range_impl(s) ==
    IF Len(s) <= 64 THEN hash_short(s, Len(s), get_execution_seed)
    ELSE finalize(
             IF Len(s) % 64 # 0
             THEN mix(MixAligned(create(s, get_execution_seed), s, 64,
                                 AlignedLength(Len(s))),
                      SubSeq(s, Len(s) - 63, Len(s)))
             ELSE MixAligned(create(s, get_execution_seed), s, 64,
                             AlignedLength(Len(s))),
             Len(s))
(***************************************************************************)
(* State.                                                                  *)
(*   root     RBTree::root                                                 *)
(*   tstatus  "ok", or "ub" once an operation has dereferenced a pointer   *)
(*            that points to no node: the behaviour is undefined from      *)
(*            there on, nothing is known of the object any more (root      *)
(*            becomes Wild) and the model takes no further step            *)
(*   tlast    the last public operation: its name, its key, whether the    *)
(*            key was in treeRef when it was called, the value it          *)
(*            returned, whether it threw KeyNotFound, and what Traverse    *)
(*            handed to the visitor                                        *)
(*   treeRef  the key -> value map that the calls which returned normally  *)
(*            describe (a reference the tree is compared with; no member   *)
(*            of RBTree)                                                   *)
(*   hmap     the HashMap or SmallHashMap object                           *)
(*   mlast    the last operation on the map: its name, its key, whether    *)
(*            the key was in mapRef when it was called, what it returned,  *)
(*            and the number of buckets the map had when it was called     *)
(*   mapRef   the key -> value map that the calls on the map describe (a   *)
(*            reference the map is compared with; no member of the map)    *)
(***************************************************************************)
VARIABLES root, tstatus, tlast, treeRef, hmap, mlast, mapRef

tvars == <<root, tstatus, tlast, treeRef>>
mvars == <<hmap, mlast, mapRef>>
vars == <<root, tstatus, tlast, treeRef, hmap, mlast, mapRef>>

Outcome(op, key, ret, thrown, visited) ==
    [op |-> op, key |-> key, present |-> key \in DOMAIN treeRef,
     ret |-> ret, thrown |-> thrown, visited |-> visited]

RefPut(f, key, value) ==
    [k \in DOMAIN f \cup {key} |-> IF k = key THEN value ELSE f[k]]
RefDel(f, key) == [k \in DOMAIN f \ {key} |-> f[k]]
SetMin(S) == CHOOSE x \in S : \A y \in S : x <= y
SetMax(S) == CHOOSE x \in S : \A y \in S : x >= y

\* The number of indeterminate non-null pointers in the tree.
RECURSIVE CountWild(_)
CountWild(p) ==
    IF p.tag = "wild" THEN 1
    ELSE IF IsNode(p) THEN CountWild(p.left) + CountWild(p.right)
    ELSE 0

\* The number of values in the tree that are other than 0.
RECURSIVE CountNonNull(_)
CountNonNull(p) ==
    IF IsNode(p)
    THEN (IF p.value # 0 THEN 1 ELSE 0) + CountNonNull(p.left) + CountNonNull(p.right)
    ELSE 0

\* An operation dereferenced a pointer that points to no node.
Undefined ==
    /\ tstatus' = "ub"
    /\ root' = Wild
    /\ UNCHANGED treeRef

\* RBTree::RBTree(): the body is empty and root has no initialiser.
NewTree ==
    [op |-> "new", key |-> 0, present |-> FALSE, ret |-> 0,
     thrown |-> FALSE, visited |-> <<>>]

\* No reservation is in force.
NoReservation == [n |-> 0, buckets |-> 0]

\* The record of no call.
NoCall(op) ==
    [op |-> op, key |-> 0, present |-> FALSE, ret |-> 0, value |-> 0,
     buckets |-> 0, entries |-> 0, tombstones |-> 0, small |-> FALSE,
     prev |-> [op |-> "other", key |-> 0, value |-> 0, entries |-> 0],
     reserved |-> NoReservation]

\* No map object exists.
NoMapObject ==
    /\ hmap = NoMap
    /\ mlast = NoCall("none")
    /\ mapRef = <<>>

\* root->color = BLACK as it would be if the statement were missing.
KeepColor(p) == p

\* root->color = BLACK
SetBlack(p) == [p EXCEPT !.color = BLACK]

TreeInit ==
    /\ NoMapObject
    /\ root \in Indeterminate
    /\ tstatus = "ok"
    /\ tlast = NewTree
    /\ treeRef = <<>>

\* void Put(Key key, Value value); l and r are what the left and right of
\* the node that the call allocates hold (nullptr when it allocates none).
TreePut(key, value, l, r) ==
    /\ tstatus = "ok"
    /\ UNCHANGED mvars
    /\ Get(root, key)[1] = "value" => (IsNil(l) /\ IsNil(r))
    /\ LET t == Insert(root, key, value, l, r)
       IN IF IsNode(t)
          THEN /\ CountWild(t) <= MaxWild
               /\ CountNonNull(t) <= MaxNonNull
               /\ root' = SetBlack(t)
               /\ tstatus' = "ok"
               /\ treeRef' = RefPut(treeRef, key, value)
          ELSE Undefined
    /\ tlast' = Outcome("put", key, value, FALSE, <<>>)

\* Value Get(Key key)
TreeGet(key) ==
    /\ tstatus = "ok"
    /\ UNCHANGED mvars
    /\ LET g == Get(root, key)
       IN IF g[1] = "bad"
          THEN /\ Undefined
               /\ tlast' = Outcome("get", key, 0, FALSE, <<>>)
          ELSE /\ tlast' = Outcome("get", key, g[2], g[1] = "KeyNotFound", <<>>)
               /\ UNCHANGED <<root, tstatus, treeRef>>

\* bool Contains(Key key) { return Get(key) != nullptr; }
\* ret is 1 for true and 0 for false.
TreeContains(key) ==
    /\ tstatus = "ok"
    /\ UNCHANGED mvars
    /\ LET g == Get(root, key)
       IN IF g[1] = "bad"
          THEN /\ Undefined
               /\ tlast' = Outcome("contains", key, 0, FALSE, <<>>)
          ELSE /\ tlast' = Outcome("contains", key,
                                   IF g[1] = "value" /\ g[2] # 0 THEN 1 ELSE 0,
                                   g[1] = "KeyNotFound", <<>>)
               /\ UNCHANGED <<root, tstatus, treeRef>>

\* void Remove(Key key)
TreeRemove(key) ==
    /\ tstatus = "ok"
    /\ UNCHANGED mvars
    /\ IF IsNil(root)
       THEN UNCHANGED <<root, tstatus, treeRef>>
       ELSE LET t == Remove(root, key)
            IN IF t.tag = "bad"
               THEN Undefined
               ELSE /\ root' = IF IsNil(t) THEN Nil ELSE SetBlack(t)
                    /\ tstatus' = "ok"
                    /\ treeRef' = RefDel(treeRef, key)
    /\ tlast' = Outcome("remove", key, 0, FALSE, <<>>)

\* void DeleteMin(): root = DeleteMin(root); root->color = BLACK;
TreeDeleteMin ==
    /\ tstatus = "ok"
    /\ UNCHANGED mvars
    /\ LET t == DeleteMin(root)
       IN IF IsNode(t)
          THEN /\ root' = SetBlack(t)
               /\ tstatus' = "ok"
               /\ treeRef' = RefDel(treeRef, SetMin(DOMAIN treeRef))
          ELSE Undefined
    /\ tlast' = Outcome("deleteMin", 0, 0, FALSE, <<>>)

\* void DeleteMax(): root = DeleteMax(root); root->color = BLACK;
TreeDeleteMax ==
    /\ tstatus = "ok"
    /\ UNCHANGED mvars
    /\ LET t == DeleteMax(root)
       IN IF IsNode(t)
          THEN /\ root' = SetBlack(t)
               /\ tstatus' = "ok"
               /\ treeRef' = RefDel(treeRef, SetMax(DOMAIN treeRef))
          ELSE Undefined
    /\ tlast' = Outcome("deleteMax", 0, 0, FALSE, <<>>)

\* void Traverse(Functor f)
TreeTraverse ==
    /\ tstatus = "ok"
    /\ UNCHANGED mvars
    /\ LET s == Traverse(root)
       IN IF s = <<-1>>
          THEN /\ Undefined
               /\ tlast' = Outcome("traverse", 0, 0, FALSE, <<>>)
          ELSE /\ tlast' = Outcome("traverse", 0, 0, FALSE, s)
               /\ UNCHANGED <<root, tstatus, treeRef>>

\* Key Min() { return (root == nullptr) ? nullptr : Min(root); }
\* ret is the key, 0 for nullptr.
TreeMin ==
    /\ tstatus = "ok"
    /\ UNCHANGED mvars
    /\ LET m == IF IsNil(root) THEN 0 ELSE Min(root)
       IN IF ~IsNil(root) /\ m = 0
          THEN /\ Undefined
               /\ tlast' = Outcome("min", 0, 0, FALSE, <<>>)
          ELSE /\ tlast' = Outcome("min", 0, m, FALSE, <<>>)
               /\ UNCHANGED <<root, tstatus, treeRef>>

\* Key Max() { return (root == nullptr) ? nullptr : Max(root); }
TreeMax ==
    /\ tstatus = "ok"
    /\ UNCHANGED mvars
    /\ LET m == IF IsNil(root) THEN 0 ELSE Max(root)
       IN IF ~IsNil(root) /\ m = 0
          THEN /\ Undefined
               /\ tlast' = Outcome("max", 0, 0, FALSE, <<>>)
          ELSE /\ tlast' = Outcome("max", 0, m, FALSE, <<>>)
               /\ UNCHANGED <<root, tstatus, treeRef>>

TreeNext ==
    \/ \E key \in TreeKeys, value \in TreeVals, l \in Indeterminate, r \in Indeterminate :
           TreePut(key, value, l, r)
    \/ \E key \in TreeKeys : TreeGet(key)
    \/ \E key \in TreeKeys : TreeContains(key)
    \/ \E key \in TreeKeys : TreeRemove(key)
    \/ TreeDeleteMin
    \/ TreeDeleteMax
    \/ TreeTraverse
    \/ TreeMin
    \/ TreeMax

TreeSpec == TreeInit /\ [][TreeNext]_vars

\* The executions of TreeSpec in which every pointer that no constructor
\* initialises happens to hold the null pointer (zero-filled memory).
TreeZeroInit ==
    /\ TreeInit
    /\ root = Nil

TreeZeroNext ==
    \/ \E key \in TreeKeys, value \in TreeVals : TreePut(key, value, Nil, Nil)
    \/ \E key \in TreeKeys : TreeGet(key)
    \/ \E key \in TreeKeys : TreeContains(key)
    \/ \E key \in TreeKeys : TreeRemove(key)
    \/ TreeDeleteMin
    \/ TreeDeleteMax
    \/ TreeTraverse
    \/ TreeMin
    \/ TreeMax

TreeZeroSpec == TreeZeroInit /\ [][TreeZeroNext]_vars


(***************************************************************************)
(* The updating operations alone, in zero-filled memory, on one more key   *)
(* than TreeSpec has: six keys make a tree of three levels, in which a put *)
(* descends through the node that a remove has left behind.                *)
(***************************************************************************)
MaxUpdateKey == 6
UpdateKeys == 1..MaxUpdateKey

TreeUpdateNext ==
    \/ \E key \in UpdateKeys : TreePut(key, 0, Nil, Nil)
    \/ \E key \in UpdateKeys : TreeRemove(key)
    \/ TreeDeleteMin
    \/ TreeDeleteMax

TreeUpdateSpec == TreeZeroInit /\ [][TreeUpdateNext]_vars
(***************************************************************************)
(* The operations on the map.                                              *)
(***************************************************************************)
\* Bounds of the map model: the keys are MapKey(1) .. MapKey(MaxMapKeys),
\* the values 0..MaxMapVal, the constructor arguments 0..MaxCtorArg, and
\* reserve is called with 0, 1, 3 or MaxReserve.
MaxMapKeys == 3
MaxMapVal == 1
MaxCtorArg == 8
MaxReserve == 48

\* Keys 1, 65, 193, ... have the same hash modulo 64, so they collide in every
\* table of at most 64 buckets; every third key (4, 7, ...) is one that does
\* not.
MapKey(i) == IF i % 3 = 0 THEN i + 1 ELSE 1 + 64 * (i - 1)
MapKeys == {MapKey(i) : i \in 1..MaxMapKeys}
MapVals == 0..MaxMapVal
CtorArgs == 0..MaxCtorArg
ReserveArgs == {0, 1, 3, MaxReserve}

\* The record of a call: what it was, what it returned, what the map was like
\* when it was called (buckets, entries, tombstones, small), and, when the
\* call before it was an erase that removed a key, that key, the value it
\* destroyed and the size before it (prev).  reserved is the reservation in
\* force: the n of HashMap(n), or of a reserve(n) called on an empty map,
\* with the number of buckets that call left, for as long as only new keys
\* are inserted after it and fewer than n of them.
MapOutcome(op, key, ret, value) ==
    [op |-> op, key |-> key, present |-> key \in DOMAIN mapRef,
     ret |-> ret, value |-> value, buckets |-> getNumBukets(hmap),
     entries |-> hmap.num_entries_, tombstones |-> hmap.num_to_mbstones_,
     small |-> hmap.Small,
     prev |-> IF mlast.op = "erase" /\ mlast.ret = 1
              THEN [op |-> "erase", key |-> mlast.key, value |-> mlast.value,
                    entries |-> mlast.entries]
              ELSE [op |-> "other", key |-> 0, value |-> 0, entries |-> 0],
     reserved |-> NoReservation]

\* No tree object exists.
NoTreeObject ==
    /\ root = Nil
    /\ tstatus = "ok"
    /\ tlast = [NewTree EXCEPT !.op = "none"]
    /\ treeRef = <<>>

\* HashMap(InitialReserve) or SmallHashMap(NumInitBuckets)
MapInit ==
    /\ NoTreeObject
    /\ \E n \in CtorArgs :
          \/ /\ hmap = NewHashMap(n)
             /\ mlast = [NoCall("new") EXCEPT
                             !.reserved = [n |-> n, buckets |-> getNumBukets(hmap)]]
          \/ /\ hmap = NewSmallHashMap(n)
             /\ mlast = NoCall("new")
    /\ mapRef = <<>>

\* insert(std::make_pair(key, value)) / try_emplace(key, value)
MapInsert(key, value) ==
    /\ hmap.fail = "none"
    /\ UNCHANGED tvars
    /\ \E r \in {try_emplace(hmap, key, value)} :
          /\ hmap' = r.m
          /\ mlast' = [MapOutcome("insert", key, IF r.inserted THEN 1 ELSE 0, value)
                           EXCEPT !.reserved =
                               IF r.inserted /\ hmap.num_entries_ < mlast.reserved.n
                               THEN mlast.reserved ELSE NoReservation]
          /\ mapRef' = IF r.m.fail = "none" /\ key \notin DOMAIN mapRef
                       THEN RefPut(mapRef, key, value)
                       ELSE mapRef

\* map[key] = value
MapIndexAssign(key, value) ==
    /\ hmap.fail = "none"
    /\ UNCHANGED tvars
    /\ \E r \in {FindAndConstruct(hmap, key)} :
          /\ hmap' = IF r.m.fail = "none"
                     THEN [r.m EXCEPT !.Buckets[r.bucket].second = value]
                     ELSE r.m
          /\ mlast' = MapOutcome("index", key, 0, 0)
          /\ mapRef' = IF r.m.fail = "none" THEN RefPut(mapRef, key, value) ELSE mapRef

\* erase(key)
MapErase(key) ==
    /\ hmap.fail = "none"
    /\ UNCHANGED tvars
    /\ \E r \in {erase(hmap, key)} :
          /\ hmap' = r.m
          /\ mlast' = MapOutcome("erase", key, IF r.erased THEN 1 ELSE 0,
                                  lookup(hmap, key).value)
          /\ mapRef' = IF r.m.fail = "none" THEN RefDel(mapRef, key) ELSE mapRef

\* clear()
MapClear ==
    /\ hmap.fail = "none"
    /\ UNCHANGED tvars
    /\ hmap' = clear(hmap)
    /\ mlast' = MapOutcome("clear", 0, 0, 0)
    /\ mapRef' = IF hmap'.fail = "none" THEN <<>> ELSE mapRef

\* reserve(n)
MapReserve(n) ==
    /\ hmap.fail = "none"
    /\ UNCHANGED tvars
    /\ hmap' = reserve(hmap, n)
    /\ mlast' = [MapOutcome("reserve", 0, 0, 0) EXCEPT
                     !.reserved =
                         IF hmap.num_entries_ = 0 /\ hmap'.fail = "none"
                         THEN [n |-> n, buckets |-> getNumBukets(hmap')]
                         ELSE NoReservation]
    /\ UNCHANGED mapRef

\* count(key) and lookup(key)
MapLookup(key) ==
    /\ hmap.fail = "none"
    /\ UNCHANGED tvars
    /\ \E r \in {lookup(hmap, key)} :
          /\ hmap' = IF r.hang THEN Failed(hmap, "hang") ELSE hmap
          /\ mlast' = MapOutcome("lookup", key, r.count, r.value)
    /\ UNCHANGED mapRef

\* for (auto &p : map): the number of buckets visited is recorded
MapIterate ==
    /\ hmap.fail = "none"
    /\ UNCHANGED tvars
    /\ mlast' = MapOutcome("iterate", 0, Len(IterateFrom(hmap, Begin(hmap))), 0)
    /\ UNCHANGED <<hmap, mapRef>>

MapNext ==
    \/ \E key \in MapKeys, value \in MapVals : MapInsert(key, value)
    \/ \E key \in MapKeys, value \in MapVals : MapIndexAssign(key, value)
    \/ \E key \in MapKeys : MapErase(key)
    \/ MapClear
    \/ \E n \in ReserveArgs : MapReserve(n)
    \/ \E key \in MapKeys : MapLookup(key)
    \/ MapIterate

MapSpec == MapInit /\ [][MapNext]_vars


(***************************************************************************)
(* A map that is filled and emptied again: keys 1, 2, ... are inserted     *)
(* into a default-constructed map, then erased in ascending order, then    *)
(* clear() is called.                                                      *)
(***************************************************************************)
\* At most MaxFill keys are inserted: the 48th grows a table of 64 buckets
\* to 128.
MaxFill == 49

FillInit ==
    /\ NoTreeObject
    /\ hmap \in {NewHashMap(0), NewSmallHashMap(0)}
    /\ mlast = NoCall("new")
    /\ mapRef = <<>>

FillInsert ==
    /\ mlast.op \in {"new", "insert"}
    /\ Cardinality(DOMAIN mapRef) < MaxFill
    /\ MapInsert(Cardinality(DOMAIN mapRef) + 1, 0)

FillErase ==
    /\ mlast.op \in {"insert", "erase"}
    /\ DOMAIN mapRef # {}
    /\ MapErase(SetMin(DOMAIN mapRef))

FillClear ==
    /\ mlast.op = "erase"
    /\ DOMAIN mapRef = {}
    /\ MapClear

FillNext == FillInsert \/ FillErase \/ FillClear

FillSpec == FillInit /\ [][FillNext]_vars

(***************************************************************************)
(* TestRBTree of src/example.cc: Put(i, i) for i = 0 .. 19, Remove(15),    *)
(* Remove(10), Remove(3), Traverse(print).  The position in the function   *)
(* is read from tlast, the last call made.                                 *)
(***************************************************************************)
\* The number of keys that TestRBTree puts.
ExampleKeys == 20
\* The keys that TestRBTree removes, in the order of the calls.
ExampleRemoved == <<15, 10, 3>>

\* The number of Remove calls of TestRBTree made so far.
ExampleRemoves ==
    IF tlast.op # "remove" THEN 0
    ELSE CHOOSE i \in 1..Len(ExampleRemoved) : ExampleRemoved[i] = tlast.key

ExampleInit == TreeInit

\* tree.Put(i, i); l and r are what the left and right of the new node hold.
ExamplePut(l, r) ==
    /\ tstatus = "ok"
    /\ tlast.op \in {"new", "put"}
    /\ UNCHANGED mvars
    /\ \E i \in {IF tlast.op = "new" THEN 0 ELSE tlast.key + 1} :
           /\ i < ExampleKeys
           /\ \E t \in {Insert(root, i, i, l, r)} :
                  IF IsNode(t)
                  THEN /\ root' = SetBlack(t)
                       /\ tstatus' = "ok"
                       /\ treeRef' = RefPut(treeRef, i, i)
                  ELSE Undefined
           /\ tlast' = Outcome("put", i, i, FALSE, <<>>)

\* tree.Remove(15); tree.Remove(10); tree.Remove(3);
ExampleRemove ==
    /\ \/ tlast.op = "put" /\ tlast.key = ExampleKeys - 1
       \/ tlast.op = "remove"
    /\ ExampleRemoves < Len(ExampleRemoved)
    /\ TreeRemove(ExampleRemoved[ExampleRemoves + 1])

\* tree.Traverse(print);
ExampleTraverse ==
    /\ tlast.op = "remove"
    /\ ExampleRemoves = Len(ExampleRemoved)
    /\ TreeTraverse

ExampleNext ==
    \/ \E l \in Indeterminate, r \in Indeterminate : ExamplePut(l, r)
    \/ ExampleRemove
    \/ ExampleTraverse

ExampleSpec == ExampleInit /\ [][ExampleNext]_vars

(***************************************************************************)
(* TestHashMap of src/example.cc: SmallHashMap<char, int> letter_counts,   *)
(* the assignments letter_counts['a'] = 27, ['b'] = 3, ['c'] = 1,          *)
(* ['b'] = 42, ['x'] = 9, and lookups.  The assignments are made in any    *)
(* order and any number of times; mlast.step is the number of assignments  *)
(* made so far when they are the first assignments of TestHashMap in the   *)
(* order of TestHashMap, and -1 otherwise.  The keys are the character     *)
(* codes; they are far from the reserved keys of HashMapInfo<char> as they *)
(* are from those of HashMapInfo<int>, and both hash a key Val to          *)
(* Val * 37U.                                                              *)
(***************************************************************************)
LetterAssigned ==
    <<[key |-> 97, value |-> 27], [key |-> 98, value |-> 3],
      [key |-> 99, value |-> 1], [key |-> 98, value |-> 42],
      [key |-> 120, value |-> 9]>>

LetterKeys == {LetterAssigned[i].key : i \in 1..Len(LetterAssigned)}

LetterOutcome(op, key, ret, value, step) ==
    [op |-> op, key |-> key, ret |-> ret, value |-> value, step |-> step,
     buckets |-> getNumBukets(hmap), small |-> hmap.Small]

\* SmallHashMap<char, int> letter_counts;
LetterInit ==
    /\ NoTreeObject
    /\ hmap = NewSmallHashMap(0)
    /\ mlast = [op |-> "new", key |-> 0, ret |-> 0, value |-> 0, step |-> 0,
                buckets |-> 0, small |-> TRUE]
    /\ mapRef = <<>>

\* letter_counts[key] = value, for the i-th assignment of TestHashMap
LetterAssign(i) ==
    /\ hmap.fail = "none"
    /\ UNCHANGED tvars
    /\ \E r \in {FindAndConstruct(hmap, LetterAssigned[i].key)} :
          /\ hmap' = IF r.m.fail = "none"
                     THEN [r.m EXCEPT !.Buckets[r.bucket].second = LetterAssigned[i].value]
                     ELSE r.m
          /\ mapRef' = IF r.m.fail = "none"
                       THEN RefPut(mapRef, LetterAssigned[i].key, LetterAssigned[i].value)
                       ELSE mapRef
    /\ mlast' = LetterOutcome("index", LetterAssigned[i].key, 0, LetterAssigned[i].value,
                              IF mlast.step = i - 1 THEN i ELSE -1)

\* letter_counts.count(key) and letter_counts.lookup(key)
LetterLookup(key) ==
    /\ hmap.fail = "none"
    /\ UNCHANGED tvars
    /\ \E r \in {lookup(hmap, key)} :
          /\ hmap' = IF r.hang THEN Failed(hmap, "hang") ELSE hmap
          /\ mlast' = LetterOutcome("lookup", key, r.count, r.value, mlast.step)
    /\ UNCHANGED mapRef

LetterNext ==
    \/ \E i \in 1..Len(LetterAssigned) : LetterAssign(i)
    \/ \E key \in LetterKeys : LetterLookup(key)

LetterSpec == LetterInit /\ [][LetterNext]_vars

(***************************************************************************)
(* Calls of HashMapInfo<T>::IsEqual on the reserved keys and on a client   *)
(* key, for every key type.  mlast records the call: the key type, the     *)
(* layout of std::string, where each argument came from, the arguments and *)
(* the result.                                                             *)
(***************************************************************************)
KeySources == {"GetEmptyKey", "GetTombstoneKey", "client"}

\* The key of type T that the expression named by source yields.
KeyFrom(T, source) ==
    CASE source = "GetEmptyKey" -> GetEmptyKeyOf(T)
      [] source = "GetTombstoneKey" -> GetTombstoneKeyOf(T)
      [] OTHER -> ClientKeyOf(T)

InfoInit ==
    /\ NoTreeObject
    /\ hmap = NoMap
    /\ mlast = NoCall("none")
    /\ mapRef = <<>>

\* HashMapInfo<T>::IsEqual(lhs, rhs)
InfoIsEqual(layout, T, lhs, rhs) ==
    /\ mlast' = [op |-> "IsEqual", type |-> T, layout |-> layout,
                 lhs |-> lhs, rhs |-> rhs,
                 lhsKey |-> KeyFrom(T, lhs), rhsKey |-> KeyFrom(T, rhs),
                 ret |-> IsEqualOf(layout, T, KeyFrom(T, lhs), KeyFrom(T, rhs))]
    /\ UNCHANGED <<hmap, mapRef>>
    /\ UNCHANGED tvars

InfoNext ==
    \E layout \in StringLayouts, T \in KeyTypes, lhs \in KeySources, rhs \in KeySources :
        InfoIsEqual(layout, T, lhs, rhs)

InfoSpec == InfoInit /\ [][InfoNext]_vars

(***************************************************************************)
(* hash_combine(v1, ..., vn), one argument at a time.  mlast is the helper *)
(* object together with the number of bytes of the arguments combined so   *)
(* far; the bytes of the arguments are numbered 1, 2, ... across the whole *)
(* argument list, so that every byte of the concatenation is told from     *)
(* every other.                                                            *)
(***************************************************************************)
\* The arguments have sizeof 1, 2, 4 or 8 (the integral and pointer types
\* with 64 % sizeof(T) == 0) and together at most MaxBytes bytes.
ArgSizes == {1, 2, 4, 8}
MaxBytes == 136

\* The bytes numbered from + 1 .. from + n.
BytesFrom(from, n) == [i \in 1..n |-> from + i]

HashInit ==
    /\ NoTreeObject
    /\ hmap = NoMap
    /\ mapRef = <<>>
    /\ mlast = [op |-> "hash_combine", helper |-> NewHelper, bytes |-> 0, size |-> 0]

\* combine(length, buffer_ptr, buffer_end, arg, args...) with sizeof(arg) = size
HashCombineArg(size) ==
    /\ mlast.bytes + size <= MaxBytes
    /\ ~mlast.helper.aborted
    /\ mlast' = [op |-> "hash_combine",
                 helper |-> combine_data(mlast.helper, BytesFrom(mlast.bytes, size)),
                 bytes |-> mlast.bytes + size,
                 size |-> size]
    /\ UNCHANGED <<hmap, mapRef>>
    /\ UNCHANGED tvars

HashNext == \E size \in ArgSizes : HashCombineArg(size)

HashSpec == HashInit /\ [][HashNext]_vars

(***************************************************************************)
(* SmallHashMap<int, int, N> for the powers of two N = 1 .. 2^MaxInlineLog2 *)
(* under a load of short-lived entries: a default-constructed map receives *)
(* keys that are erased again soon, so that tombstones accumulate while    *)
(* the map holds at most MaxHeld entries.                                  *)
(***************************************************************************)
MaxInlineLog2 == 6
MaxHeld == 1
MaxChurnKey == 64

InlineSizes == {Pow2(i) : i \in 0..MaxInlineLog2}
ChurnReserves == {1, 3}

\* The keys 1 .. MaxChurnKey whose first probe in the map m meets an empty
\* bucket: inserting one of them reuses no tombstone.
FreshKeys(m) ==
    {k \in 1..MaxChurnKey :
        IsEqual(m.Buckets[BitAnd(GetHashValue(k), getNumBukets(m) - 1)].first, EmptyKey)}

ChurnInit ==
    /\ NoTreeObject
    /\ hmap \in {NewSmallHashMapOf(N, 0) : N \in InlineSizes}
    /\ mlast = NoCall("new")
    /\ mapRef = <<>>

ChurnInsert ==
    /\ hmap.fail = "none"
    /\ hmap.num_entries_ < MaxHeld
    /\ FreshKeys(hmap) # {}
    /\ MapInsert(SetMin(FreshKeys(hmap)), 0)

ChurnIndexAssign ==
    /\ hmap.fail = "none"
    /\ hmap.num_entries_ < MaxHeld
    /\ FreshKeys(hmap) # {}
    /\ MapIndexAssign(SetMin(FreshKeys(hmap)), 0)

ChurnErase == \E key \in DOMAIN mapRef : MapErase(key)

ChurnReserve == \E n \in ChurnReserves : MapReserve(n)

ChurnClear == MapClear

ChurnNext ==
    \/ ChurnInsert
    \/ ChurnIndexAssign
    \/ ChurnErase
    \/ ChurnReserve
    \/ ChurnClear

ChurnSpec == ChurnInit /\ [][ChurnNext]_vars
(***************************************************************************)
(* What the properties of the ordered map are stated with.                 *)
(***************************************************************************)
\* The nodes of the tree under p.
RECURSIVE Subtrees(_)
Subtrees(p) ==
    IF IsNode(p) THEN {p} \cup Subtrees(p.left) \cup Subtrees(p.right) ELSE {}

\* The keys of the nodes under p, in order (left, node, right).
RECURSIVE InOrderKeys(_)
InOrderKeys(p) ==
    IF IsNode(p) THEN InOrderKeys(p.left) \o <<p.key>> \o InOrderKeys(p.right)
    ELSE <<>>

KeysOf(p) == {n.key : n \in Subtrees(p)}

\* The numbers of BLACK nodes on the paths from p down to an absent child
\* (a null link).  An indeterminate link leads to no node and to no absent
\* child: no path goes through it.
RECURSIVE BlackCounts(_)
BlackCounts(p) ==
    IF IsNil(p) THEN {0}
    ELSE IF IsNode(p)
    THEN {h + (IF p.color = BLACK THEN 1 ELSE 0) :
              h \in BlackCounts(p.left) \cup BlackCounts(p.right)}
    ELSE {}

\* The values of the reference map f in ascending order of their keys.
RECURSIVE ValuesByKey(_)
ValuesByKey(f) ==
    IF DOMAIN f = {} THEN <<>>
    ELSE <<f[SetMin(DOMAIN f)]>> \o ValuesByKey(RefDel(f, SetMin(DOMAIN f)))

IsSearchTree(p) ==
    \A n \in Subtrees(p) :
        /\ \A k \in KeysOf(n.left) : k < n.key
        /\ \A k \in KeysOf(n.right) : k > n.key

(***************************************************************************)
(* The ordered map (RBTree).                                               *)
(***************************************************************************)
\* C2: after every put the call has returned normally, get(k) gives, for
\* every key k put so far, the value of the most recent put(k, v), and the
\* tree holds one entry per key (a put on an existing key adds no second one).
C2_PutThenGet ==
    tlast.op = "put" =>
        /\ tstatus = "ok"
        /\ \A k \in DOMAIN treeRef : Get(root, k) = <<"value", treeRef[k]>>
        /\ Len(InOrderKeys(root)) = Cardinality(DOMAIN treeRef)

\* C3: traverse hands the visitor each present entry exactly once, in
\* strictly ascending order of the keys, and the tree is a binary search tree
\* on its keys whenever a public operation has returned.
C3_TraverseAscending ==
    /\ tlast.op = "traverse" =>
           (tstatus = "ok" /\ tlast.visited = ValuesByKey(treeRef))
    /\ tstatus = "ok" => IsSearchTree(root)

\* C4: after any sequence of put and remove operations no node that is
\* reached through a right link is RED.
C4_NoRedRightLink ==
    tstatus = "ok" => \A n \in Subtrees(root) : IsRed(n.right) # "T"

C6_RemovePresent ==
    [][(tlast'.op = "remove" /\ Get(root, tlast'.key)[1] = "value") =>
           /\ tstatus' = "ok"
           /\ KeysOf(root') = KeysOf(root) \ {tlast'.key}
           /\ \A k \in KeysOf(root') : Get(root', k) = Get(root, k)]_vars

\* C7: contains(key) raises nothing; it returns true when the key is
\* present and false when it is absent.
C7_ContainsReports ==
    tlast.op = "contains" =>
        /\ tstatus = "ok"
        /\ ~tlast.thrown
        /\ (tlast.ret = 1) = tlast.present

\* C8: get(key) of a key that is not present (also on an empty tree) raises
\* KeyNotFound and leaves the tree as it was.
C8_GetAbsentThrows ==
    [][(tlast'.op = "get" /\ ~tlast'.present) =>
           /\ tstatus' = "ok"
           /\ tlast'.thrown
           /\ root' = root]_vars


\* The keys 0 .. ExampleKeys - 1 without the removed ones, ascending.
ExampleExpected ==
    SelectSeq([i \in 1..ExampleKeys |-> i - 1],
              LAMBDA k : \A j \in 1..Len(ExampleRemoved) : ExampleRemoved[j] # k)

\* C23: putting the keys 0..19 (value = key) in ascending order and then
\* removing 15, 10 and 3 completes normally, and the in-order traversal
\* yields exactly 0,1,2,4,5,6,7,8,9,11,12,13,14,16,17,18,19.
C23_ExampleTraversal ==
    /\ tstatus = "ok"
    /\ tlast.op = "traverse" => tlast.visited = ExampleExpected

\* C24: on every non-empty ordered map min() returns the smallest key
\* present and max() the largest (after putting {5,1,9,3}: 1 and 9; after
\* then removing 9, max() returns 5).
C24_MinMax ==
    /\ (tlast.op = "min" /\ DOMAIN treeRef # {}) =>
           (tstatus = "ok" /\ tlast.ret = SetMin(DOMAIN treeRef))
    /\ (tlast.op = "max" /\ DOMAIN treeRef # {}) =>
           (tstatus = "ok" /\ tlast.ret = SetMax(DOMAIN treeRef))

\* C25: deleteMin (deleteMax) on an ordered map with at least two entries
\* returns normally and removes exactly the entry with the smallest
\* (largest) key; all other keys stay, with their values.
C25_DeleteMinMax ==
    [][(tlast'.op \in {"deleteMin", "deleteMax"} /\ Cardinality(KeysOf(root)) >= 2) =>
           /\ tstatus' = "ok"
           /\ KeysOf(root') = KeysOf(root) \
                  {IF tlast'.op = "deleteMin" THEN SetMin(KeysOf(root))
                                              ELSE SetMax(KeysOf(root))}
           /\ \A k \in KeysOf(root') : Get(root', k) = Get(root, k)]_vars

\* C26: deleteMin and deleteMax on an ordered map holding exactly one entry
\* leave the map empty and return normally, without dereferencing the
\* now-absent root.
C26_DeleteOnlyEntry ==
    [][(tlast'.op \in {"deleteMin", "deleteMax"} /\ Cardinality(KeysOf(root)) = 1) =>
           /\ tstatus' = "ok"
           /\ root' = Nil]_vars

\* C27: after every public mutating operation of the ordered map (put,
\* remove, deleteMin, deleteMax) that has returned and leaves the tree
\* non-empty, the root node is BLACK.
C27_RootBlack ==
    (tstatus = "ok" /\ IsNode(root)) => root.color = BLACK

\* C27, witness: a deleteMax has returned and left a tree of at least two
\* nodes, whose root is BLACK and has a RED left child.
C27_DeletedMaxRootBlack ==
    /\ tstatus = "ok"
    /\ tlast.op = "deleteMax"
    /\ IsNode(root)
    /\ root.color = BLACK
    /\ IsRed(root.left) = "T"

\* C28: a newly constructed ordered map is empty: its root is absent, so
\* traverse visits nothing, remove(key) is a no-op, and the first put
\* creates a one-node tree with a BLACK root.
C28_NewTreeEmpty ==
    [][tlast.op = "new" =>
           /\ IsNil(root)
           /\ tlast'.op = "traverse" => (tstatus' = "ok" /\ tlast'.visited = <<>>)
           /\ tlast'.op = "remove" => (tstatus' = "ok" /\ root' = root)
           /\ tlast'.op = "put" =>
                  /\ tstatus' = "ok"
                  /\ IsNode(root')
                  /\ root'.color = BLACK
                  /\ KeysOf(root') = {tlast'.key}
                  /\ IsNil(root'.left) /\ IsNil(root'.right)]_vars

\* C29: remove(key) on a non-empty ordered map that does not contain key is
\* not a clean no-op: for every such tree and key the recursive descent
\* reaches an absent child and dereferences it, instead of returning with
\* the tree unchanged.
C29_RemoveAbsentDereferences ==
    [][(tlast'.op = "remove" /\ IsNode(root) /\ tlast'.key \notin KeysOf(root)) =>
           tstatus' = "ub"]_vars

\* C29, witness: a remove of a key that lies between two keys of a tree of
\* three entries has dereferenced an absent child.
C29_RemovedAbsentBetween ==
    /\ tlast.op = "remove"
    /\ ~tlast.present
    /\ tstatus = "ub"
    /\ Cardinality(DOMAIN treeRef) = 3
    /\ \E a \in DOMAIN treeRef, b \in DOMAIN treeRef : a < tlast.key /\ tlast.key < b

(***************************************************************************)
(* The shape of the tree.                                                  *)
(***************************************************************************)
\* The last call was a put, a remove of a present key, a deleteMin or a
\* deleteMax, and it returned normally.
UpdateReturned ==
    /\ tstatus = "ok"
    /\ \/ tlast.op \in {"put", "deleteMin", "deleteMax"}
       \/ tlast.op = "remove" /\ tlast.present
    /\ ~tlast.thrown

\* C37: after every put, remove of a present key, deleteMin or deleteMax
\* that returns normally, no RED node has a RED child.
C37_NoRedRed ==
    UpdateReturned =>
        \A n \in Subtrees(root) :
            IsRed(n) = "T" => (IsRed(n.left) # "T" /\ IsRed(n.right) # "T")

\* C38: after every put, remove of a present key, deleteMin or deleteMax
\* that returns normally, a node's right child is RED only if its left child
\* is RED too.
C38_LeftLeaning ==
    UpdateReturned =>
        \A n \in Subtrees(root) : IsRed(n.right) = "T" => IsRed(n.left) = "T"
(***************************************************************************)
(* The hash maps (HashMap, SmallHashMap).                                  *)
(***************************************************************************)
\* C1: the map agrees with the reference key -> value map after every
\* operation: no operation fails to return, size() is the number of keys of
\* the reference, count(k) is 1 exactly for the keys of the reference, and
\* the value found is the value of the reference (which an insert on an
\* existing key leaves alone and an operator[] assignment overwrites).
C1_RefinesReference ==
    /\ hmap.fail # "none" => mlast.op = "new"
    /\ hmap.fail = "none" =>
           /\ hmap.num_entries_ = Cardinality(DOMAIN mapRef)
           /\ \A k \in MapKeys :
                  /\ ~lookup(hmap, k).hang
                  /\ (lookup(hmap, k).count = 1) = (k \in DOMAIN mapRef)
                  /\ k \in DOMAIN mapRef => lookup(hmap, k).value = mapRef[k]

\* C1, witness: an erase has removed a key and left a tombstone while two
\* other keys are still in the map.
C1_ErasedBetweenOthers ==
    /\ hmap.fail = "none"
    /\ mlast.op = "erase"
    /\ mlast.ret = 1
    /\ hmap.num_to_mbstones_ >= 1
    /\ Cardinality(DOMAIN mapRef) = 2

\* C9: right after every insertion of a new key (insert, try_emplace or
\* operator[] with a key that was absent), entries * 4 < capacity * 3.
C9_LoadAfterInsert ==
    (hmap.fail = "none" /\ mlast.op \in {"insert", "index"} /\ ~mlast.present) =>
        hmap.num_entries_ * 4 < getNumBukets(hmap) * 3

\* C9, witness: the insertion of a third key has made a SmallHashMap leave
\* its inline buckets.
C9_InsertedAndGrown ==
    /\ hmap.fail = "none"
    /\ mlast.op = "insert"
    /\ ~mlast.present
    /\ hmap.kind = "SmallHashMap"
    /\ mlast.buckets = InlineBuckets
    /\ ~hmap.Small
    /\ hmap.num_entries_ = 3

\* C10 as stated: after any operation (construction, insert, erase, clear,
\* reserve), entries * 4 < capacity * 3.
C10_LoadEveryState ==
    hmap.fail = "none" => hmap.num_entries_ * 4 < getNumBukets(hmap) * 3

\* C10 as amended: after any operation, entries * 4 < capacity * 3, or the
\* map has no bucket array (capacity 0) and no entry.
C10_LoadOrNoTable ==
    hmap.fail = "none" =>
        \/ hmap.num_entries_ * 4 < getNumBukets(hmap) * 3
        \/ getNumBukets(hmap) = 0 /\ hmap.num_entries_ = 0

\* C10, witness: a clear has given up the bucket array of a map that held
\* tombstones only.
C10_ClearedToNoTable ==
    /\ hmap.fail = "none"
    /\ mlast.op = "clear"
    /\ mlast.buckets > 64
    /\ getNumBukets(hmap) = 0

\* C11 as stated: in every reachable state, the state a constructor leaves
\* included, the capacity is 0 or a power of two and entries + tombstones
\* <= capacity.
C11_CapacityShape ==
    /\ BitAnd(getNumBukets(hmap), Max2(getNumBukets(hmap), 1) - 1) = 0
    /\ hmap.num_entries_ + hmap.num_to_mbstones_ <= getNumBukets(hmap)

\* The map holds every key of the reference with its value.
AllRetrievable ==
    \A k \in DOMAIN mapRef :
        lookup(hmap, k).count = 1 /\ lookup(hmap, k).value = mapRef[k]

\* The last call put a new key into a SmallHashMap that was in its inline
\* representation and held no tombstone.
InsertedIntoInline ==
    /\ hmap.kind = "SmallHashMap"
    /\ mlast.op \in {"insert", "index"}
    /\ ~mlast.present
    /\ mlast.small
    /\ mlast.tombstones = 0

BucketsHolding(k) == {i \in DOMAIN hmap.Buckets : IsEqual(hmap.Buckets[i].first, k)}

\* The last call put the key back that the call before it had erased.
Reinserted ==
    /\ mlast.op \in {"insert", "index"}
    /\ mlast.prev.op = "erase"
    /\ mlast.prev.key = mlast.key

\* C13: after erase(k) of a present key followed by the insertion of k with
\* a value, the lookup of k finds the value just inserted, exactly one bucket
\* holds k, and size() is what it was before the erase.
C13_EraseReinsert ==
    Reinserted =>
        /\ hmap.fail = "none"
        /\ lookup(hmap, mlast.key).count = 1
        /\ lookup(hmap, mlast.key).value = mapRef[mlast.key]
        /\ Cardinality(BucketsHolding(mlast.key)) = 1
        /\ hmap.num_entries_ = mlast.prev.entries

\* C13, witness: a key erased from a map of three entries has been inserted
\* again with a value other than the one the erase destroyed, and the lookup
\* finds the new value.
C13_ReinsertedWithNewValue ==
    /\ Reinserted
    /\ mlast.op = "insert"
    /\ mlast.prev.entries = 3
    /\ mlast.prev.value # mapRef[mlast.key]
    /\ lookup(hmap, mlast.key).value = mapRef[mlast.key]
    /\ hmap.num_entries_ = 3

\* C14: insert/try_emplace of a key that the map holds returns false with the
\* bucket of the existing entry, and changes nothing: not the value, not the
\* size, the tombstone count or the capacity, and no bucket.
C14_InsertExistingKeeps ==
    [][(mlast'.op = "insert" /\ lookup(hmap, mlast'.key).count = 1) =>
           /\ mlast'.ret = 0
           /\ try_emplace(hmap, mlast'.key, mlast'.value).bucket
                  \in {i \in DOMAIN hmap.Buckets :
                          IsEqual(hmap.Buckets[i].first, mlast'.key)}
           /\ hmap' = hmap]_vars

\* C14, witness: an insert with another value than the stored one has
\* returned false on a map of two entries and a tombstone, and the stored
\* value is still the other one.
C14_RefusedOtherValue ==
    /\ mlast.op = "insert"
    /\ mlast.present
    /\ mlast.ret = 0
    /\ hmap.num_to_mbstones_ >= 1
    /\ hmap.num_entries_ = 2
    /\ mlast.value # lookup(hmap, mlast.key).value

\* C15: erase(key) of an absent key returns false and changes nothing;
\* erase(key) of a present key returns true, writes the tombstone key to the
\* one bucket that held the key, takes one from the entry count, adds one
\* to the tombstone count, and leaves the capacity and every other bucket
\* as they were.
C15_EraseEffect ==
    [][mlast'.op = "erase" =>
           /\ lookup(hmap, mlast'.key).count = 0 =>
                  mlast'.ret = 0 /\ hmap' = hmap
           /\ lookup(hmap, mlast'.key).count = 1 =>
                  /\ mlast'.ret = 1
                  /\ hmap'.fail = "none"
                  /\ hmap'.num_entries_ = hmap.num_entries_ - 1
                  /\ hmap'.num_to_mbstones_ = hmap.num_to_mbstones_ + 1
                  /\ getNumBukets(hmap') = getNumBukets(hmap)
                  /\ hmap'.Small = hmap.Small
                  /\ DOMAIN hmap'.Buckets = DOMAIN hmap.Buckets
                  /\ \A i \in DOMAIN hmap.Buckets :
                         IF IsEqual(hmap.Buckets[i].first, mlast'.key)
                         THEN IsEqual(hmap'.Buckets[i].first, TombstoneKey)
                         ELSE hmap'.Buckets[i] = hmap.Buckets[i]]_vars

\* C15, witness: an erase has turned the bucket of a key into a tombstone in
\* a map that held two entries and a tombstone already; the other entry is
\* still found.
C15_ErasedBesideTombstone ==
    /\ hmap.fail = "none"
    /\ mlast.op = "erase"
    /\ mlast.ret = 1
    /\ mlast.entries = 2
    /\ mlast.tombstones >= 1
    /\ hmap.num_entries_ = 1
    /\ hmap.num_to_mbstones_ = mlast.tombstones + 1
    /\ AllRetrievable

\* clear() was called on a table that is large for what it holds: the
\* condition under which it calls shrink_and_clear.
ShrinkCase ==
    /\ mlast.entries + mlast.tombstones > 0
    /\ mlast.entries * 4 < mlast.buckets
    /\ mlast.buckets > 64

\* C16: clear() leaves size() = 0, no tombstone counted and the empty key in
\* every bucket; when the shrink condition does not hold (not (entries * 4 <
\* capacity and capacity > 64)), the capacity and the representation are the
\* ones the map had before.
C16_ClearEmpties ==
    mlast.op = "clear" =>
        /\ hmap.fail = "none"
        /\ hmap.num_entries_ = 0
        /\ hmap.num_to_mbstones_ = 0
        /\ \A i \in DOMAIN hmap.Buckets : IsEqual(hmap.Buckets[i].first, EmptyKey)
        /\ Cardinality(DOMAIN hmap.Buckets) = getNumBukets(hmap)
        /\ ~(mlast.entries * 4 < mlast.buckets /\ mlast.buckets > 64) =>
               getNumBukets(hmap) = mlast.buckets /\ hmap.Small = mlast.small

\* C16, witness: clear() has emptied in place a table of 64 buckets that
\* held two entries and a tombstone.
C16_ClearedInPlace ==
    /\ hmap.fail = "none"
    /\ mlast.op = "clear"
    /\ mlast.entries = 2
    /\ mlast.tombstones >= 1
    /\ mlast.buckets = 64
    /\ getNumBukets(hmap) = 64
    /\ hmap.num_entries_ = 0

\* C17: a clear() called on a HashMap or SmallHashMap with entries * 4 <
\* capacity, capacity > 64 and entries + tombstones > 0 leaves a capacity
\* strictly smaller than the one before.
C17_ClearShrinks ==
    (mlast.op = "clear" /\ ShrinkCase) =>
        hmap.fail = "none" /\ getNumBukets(hmap) < mlast.buckets

\* C18: after N distinct keys have been inserted and all of them erased, a
\* clear() leaves size() = 0; and if the capacity had grown above 64, the
\* clear shrinks the table: a HashMap drops to capacity 0, a SmallHashMap
\* returns to its inline storage.
C18_FillEraseClear ==
    (mlast.op = "clear" /\ mlast.entries = 0) =>
        /\ hmap.fail = "none"
        /\ hmap.num_entries_ = 0
        /\ mlast.buckets > 64 =>
               IF hmap.kind = "HashMap" THEN getNumBukets(hmap) = 0
               ELSE hmap.Small /\ getNumBukets(hmap) = InlineBuckets

\* C18, witness: a SmallHashMap that insertions had grown to 128 buckets and
\* erasures had emptied is back in its inline storage after clear().
C18_BackInline ==
    /\ hmap.kind = "SmallHashMap"
    /\ mlast.op = "clear"
    /\ mlast.buckets = 128
    /\ mlast.entries = 0
    /\ mlast.tombstones >= 48
    /\ hmap.Small
    /\ hmap.num_entries_ = 0

\* C19: after HashMap(n), or after reserve(n) called on an empty map, the
\* insertion of n distinct keys goes without Grow: each insertion leaves the
\* capacity that the constructor or reserve left, and the bucket array as it
\* was but for the bucket of the new key.
C19_ReservedNoGrow ==
    [][(mlast'.op = "insert" /\ mlast'.reserved.n > 0) =>
           /\ hmap'.fail = "none"
           /\ getNumBukets(hmap') = mlast'.reserved.buckets
           /\ DOMAIN hmap'.Buckets = DOMAIN hmap.Buckets
           /\ \A i \in DOMAIN hmap.Buckets :
                  \/ hmap'.Buckets[i] = hmap.Buckets[i]
                  \/ IsEqual(hmap'.Buckets[i].first, mlast'.key)]_vars

\* The buckets that hold a real key.
LiveBuckets == {i \in DOMAIN hmap.Buckets : IsLive(hmap.Buckets[i])}

\* C20: in every reachable state, the iteration from begin() to end() visits
\* exactly the buckets that hold a real key, each once and never a bucket
\* with the empty or the tombstone key, so that the number of buckets
\* visited is size(); and begin() = end() when the map is empty.
C20_IterationVisitsLive ==
    hmap.fail = "none" =>
        /\ {IterateFrom(hmap, Begin(hmap))[j] :
               j \in 1..Len(IterateFrom(hmap, Begin(hmap)))} = LiveBuckets
        /\ Len(IterateFrom(hmap, Begin(hmap))) = Cardinality(LiveBuckets)
        /\ Len(IterateFrom(hmap, Begin(hmap))) = hmap.num_entries_
        /\ hmap.num_entries_ = 0 => Begin(hmap) = End(hmap)
        /\ mlast.op = "iterate" => mlast.ret = hmap.num_entries_

\* C20, witness: an iteration has visited the two entries of a map that has
\* a tombstone in a bucket before the first entry.
C20_IteratedPastTombstone ==
    /\ hmap.fail = "none"
    /\ mlast.op = "iterate"
    /\ mlast.ret = 2
    /\ hmap.num_to_mbstones_ >= 1
    /\ \E t \in DOMAIN hmap.Buckets :
           IsEqual(hmap.Buckets[t].first, TombstoneKey) /\ t < Begin(hmap)


(***************************************************************************)
(* The key traits (HashMapInfo).                                           *)
(***************************************************************************)
\* C21: for every key type with key traits (char, the integer types,
\* pointers, pairs, std::string, hash_code),
\* IsEqual(GetEmptyKey(), GetTombstoneKey()) is false.
C21_SentinelsDistinct ==
    (mlast.op = "IsEqual" /\ mlast.lhs = "GetEmptyKey" /\ mlast.rhs = "GetTombstoneKey")
        => ~mlast.ret

(***************************************************************************)
(* TestHashMap of src/example.cc.                                          *)
(***************************************************************************)
\* C22: on a SmallHashMap<char,int> with inline capacity 4, after m['a']=27,
\* m['b']=3, m['c']=1 a lookup of 'b' returns 3; after m['b']=42 and m['x']=9
\* the insert of 'x' has succeeded and every inserted key is retrievable with
\* its latest value (a=27, b=42, c=1, x=9); size() is the number of distinct
\* keys inserted.
C22_LetterCounts ==
    /\ hmap.fail = "none"
    /\ hmap.num_entries_ = Cardinality(DOMAIN mapRef)
    /\ \A k \in DOMAIN mapRef :
           lookup(hmap, k) = [hang |-> FALSE, count |-> 1, value |-> mapRef[k]]
    /\ (mlast.step = 3 /\ mlast.op = "lookup" /\ mlast.key = 98) =>
           (mlast.ret = 1 /\ mlast.value = 3)
    /\ mlast.step = 5 =>
           /\ mapRef = (97 :> 27 @@ 98 :> 42 @@ 99 :> 1 @@ 120 :> 9)
           /\ hmap.num_entries_ = 4

\* C22, witness: after the five assignments in the order of TestHashMap, on
\* a map that has left its four inline buckets, a lookup of 'x' has
\* returned 9.
C22_LookedUpX ==
    /\ mlast.step = 5
    /\ mlast.op = "lookup"
    /\ mlast.key = 120
    /\ mlast.value = 9
    /\ ~hmap.Small
    /\ hmap.num_entries_ = 4

(***************************************************************************)
(* LookupBucketFor.                                                        *)
(***************************************************************************)
\* The keys looked up: the keys of the model and one more key that collides
\* with two of them in every table of at most 64 buckets.
ProbedKeys == MapKeys \cup {MapKey(4)}

\* b_i: the i-th bucket of the triangular sequence of Val, i = 0, 1, ...
ProbedBucket(m, Val, i) ==
    (GetHashValue(Val) + (i * (i + 1)) \div 2) % getNumBukets(m)

\* The probe at which the sequence of Val stops: the first i whose bucket
\* holds an equal key or the empty key.
StopsAt(m, Val, s) ==
    /\ \/ IsEqual(Val, m.Buckets[ProbedBucket(m, Val, s)].first)
       \/ IsEqual(m.Buckets[ProbedBucket(m, Val, s)].first, EmptyKey)
    /\ \A j \in 0..(s - 1) :
           /\ ~IsEqual(Val, m.Buckets[ProbedBucket(m, Val, j)].first)
           /\ ~IsEqual(m.Buckets[ProbedBucket(m, Val, j)].first, EmptyKey)

\* The probes before s at which the sequence of Val passed a tombstone.
TombstonesBefore(m, Val, s) ==
    {j \in 0..(s - 1) : IsEqual(m.Buckets[ProbedBucket(m, Val, j)].first, TombstoneKey)}

\* The result of LookupBucketFor by the rule: hit at the bucket of the stop;
\* miss with the bucket of the first tombstone passed, or else with the
\* empty bucket of the stop.
ResultAt(m, Val, s) ==
    IF IsEqual(Val, m.Buckets[ProbedBucket(m, Val, s)].first)
    THEN [found |-> TRUE, bucket |-> ProbedBucket(m, Val, s), hang |-> FALSE]
    ELSE [found |-> FALSE,
          bucket |-> IF TombstonesBefore(m, Val, s) # {}
                     THEN ProbedBucket(m, Val, SetMin(TombstonesBefore(m, Val, s)))
                     ELSE ProbedBucket(m, Val, s),
          hang |-> FALSE]

\* C30: LookupBucketFor examines the buckets b_0 = hash(key) mod capacity,
\* b_{i+1} = (b_i + (i+1)) mod capacity; it stops at the first bucket holding
\* an equal key (hit) or the first empty bucket (miss); on a miss the bucket
\* it reports is the first tombstone seen along the chain if there was one,
\* otherwise that empty bucket; with capacity 0 it reports a miss with no
\* bucket.
C30_LookupProbing ==
    hmap.fail = "none" =>
        \A Val \in ProbedKeys :
            IF getNumBukets(hmap) = 0
            THEN LookupBucketFor(hmap, Val) = [found |-> FALSE, bucket |-> -1, hang |-> FALSE]
            ELSE \E s \in 0..(getNumBukets(hmap) - 1) :
                     /\ StopsAt(hmap, Val, s)
                     /\ LookupBucketFor(hmap, Val) = ResultAt(hmap, Val, s)

\* C30, witness: a lookup of an absent key has been made in a map where the
\* sequence of that key passes a tombstone and a live key before it stops at
\* an empty bucket at its third probe or later.
C30_MissPastTombstone ==
    /\ hmap.fail = "none"
    /\ mlast.op = "lookup"
    /\ mlast.ret = 0
    /\ getNumBukets(hmap) > 0
    /\ \E s \in 2..(getNumBukets(hmap) - 1) :
           /\ StopsAt(hmap, mlast.key, s)
           /\ TombstonesBefore(hmap, mlast.key, s) # {}
           /\ \E j \in 0..(s - 1) : IsLive(hmap.Buckets[ProbedBucket(hmap, mlast.key, j)])

(***************************************************************************)
(* Growth and refresh.                                                     *)
(***************************************************************************)
\* The step is an insertion (insert or operator[]) of a key that was not in
\* the map, and the call returned.
InsertsNewKey ==
    /\ hmap.fail = "none"
    /\ hmap'.fail = "none"
    /\ mlast'.op \in {"insert", "index"}
    /\ ~LookupBucketFor(hmap, mlast'.key).found

\* The load rule of InsertIntoBucketImpl applies to the map m.
LoadRule(m) == (m.num_entries_ + 1) * 4 >= getNumBukets(m) * 3

\* The tombstone rule of InsertIntoBucketImpl applies to the map m.
TombstoneRule(m) ==
    /\ ~LoadRule(m)
    /\ getNumBukets(m) - (m.num_entries_ + 1 + m.num_to_mbstones_)
           <= getNumBukets(m) \div 8

\* Every entry of the map old is found in the map new, with its value.
KeepsEntries(old, new) ==
    \A i \in DOMAIN old.Buckets :
        IsLive(old.Buckets[i]) =>
            /\ LookupBucketFor(new, old.Buckets[i].first).found
            /\ lookup(new, old.Buckets[i].first).value = old.Buckets[i].second

\* The key Val lies in the map m in the bucket that a lookup of Val reports
\* for insertion in m without Val.
InFreshBucket(m, Val) ==
    \E l \in {LookupBucketFor(m, Val)} :
        /\ l.found
        /\ LookupBucketFor([m EXCEPT !.Buckets[l.bucket].first = EmptyKey], Val).bucket
               = l.bucket

C32_RefreshSameCapacity ==
    [][(InsertsNewKey /\ TombstoneRule(hmap)) =>
           /\ getNumBukets(hmap') = getNumBukets(hmap)
           /\ hmap'.num_to_mbstones_ = 0
           /\ KeepsEntries(hmap, hmap')]_vars


\* C33: once a SmallHashMap has switched to heap storage, no insert,
\* operator[], find, erase or reserve returns it to inline storage; only
\* clear() through shrink_and_clear (more than 64 buckets, less than a
\* quarter of them in use) makes it inline again.
C33_LargeStaysLarge ==
    [][(/\ hmap.kind = "SmallHashMap"
        /\ hmap.fail = "none"
        /\ ~hmap.Small
        /\ hmap'.Small) =>
           /\ mlast'.op = "clear"
           /\ getNumBukets(hmap) > 64
           /\ hmap.num_entries_ * 4 < getNumBukets(hmap)
           /\ hmap.num_entries_ + hmap.num_to_mbstones_ > 0]_vars

\* C33, witness: a SmallHashMap on the heap, emptied by erase and then asked
\* to reserve, is still on the heap.
C33_EmptiedStillLarge ==
    /\ hmap.kind = "SmallHashMap"
    /\ hmap.fail = "none"
    /\ mlast.op = "reserve"
    /\ ~mlast.small
    /\ ~hmap.Small
    /\ hmap.num_entries_ = 0
    /\ hmap.num_to_mbstones_ > 0

(***************************************************************************)
(* Invariants of the table.                                                *)
(***************************************************************************)
\* The buckets of the map m that hold the tombstone key.
TombstoneBuckets(m) ==
    {i \in DOMAIN m.Buckets : IsEqual(m.Buckets[i].first, TombstoneKey)}

\* The buckets of the map m that hold the empty key.
EmptyBuckets(m) ==
    {i \in DOMAIN m.Buckets : IsEqual(m.Buckets[i].first, EmptyKey)}

\* The buckets of the map m that hold a real key.
RealBuckets(m) == {i \in DOMAIN m.Buckets : IsLive(m.Buckets[i])}

\* C34: in every reachable state of the hash map the entry counter equals
\* the number of buckets holding a real key and the tombstone counter the
\* number of buckets holding the tombstone key; inserting into a tombstone
\* bucket decrements the tombstone counter, and growth, refresh and clear
\* reset it to 0.
C34_CountersConsistent ==
    hmap.fail = "none" =>
        /\ Cardinality(DOMAIN hmap.Buckets) = getNumBukets(hmap)
        /\ hmap.num_entries_ = Cardinality(RealBuckets(hmap))
        /\ hmap.num_to_mbstones_ = Cardinality(TombstoneBuckets(hmap))
        /\ (/\ mlast.op \in {"insert", "index"}
            /\ ~mlast.present
            /\ getNumBukets(hmap) = mlast.buckets) =>
               hmap.num_to_mbstones_ \in {mlast.tombstones, mlast.tombstones - 1}
        /\ (/\ mlast.op \in {"insert", "index"}
            /\ getNumBukets(hmap) # mlast.buckets) => hmap.num_to_mbstones_ = 0
        /\ mlast.op = "clear" => hmap.num_to_mbstones_ = 0 /\ hmap.num_entries_ = 0

\* C34, witness: an insertion has reused one of two tombstone buckets.
C34_ReusedTombstone ==
    /\ hmap.fail = "none"
    /\ mlast.op \in {"insert", "index"}
    /\ ~mlast.present
    /\ mlast.tombstones = 2
    /\ hmap.num_to_mbstones_ = 1
    /\ Cardinality(TombstoneBuckets(hmap)) = 1

\* The bucket b of the map m lies on the probe sequence of Val, and no bucket
\* before it on that sequence holds the empty key.
ReachedBy(m, Val, b) ==
    \E s \in 0..(getNumBukets(m) - 1) :
        /\ ProbedBucket(m, Val, s) = b
        /\ \A i \in 0..(s - 1) :
               ~IsEqual(m.Buckets[ProbedBucket(m, Val, i)].first, EmptyKey)

\* C35: in every reachable state no real key occupies two buckets, and for
\* every live key k stored in bucket b no bucket that precedes b on k's
\* probe sequence is empty, so a lookup of k reaches b; this holds across
\* erase, tombstone reuse, growth and refresh.
C35_ProbeChains ==
    hmap.fail = "none" =>
        \A b \in RealBuckets(hmap) :
            /\ \A c \in RealBuckets(hmap) :
                   IsEqual(hmap.Buckets[b].first, hmap.Buckets[c].first) => b = c
            /\ ReachedBy(hmap, hmap.Buckets[b].first, b)
            /\ LookupBucketFor(hmap, hmap.Buckets[b].first)
                   = [found |-> TRUE, bucket |-> b, hang |-> FALSE]

\* C35, witness: after an erase a key lies behind the tombstone on its probe
\* sequence.
C35_KeyBehindTombstone ==
    /\ hmap.fail = "none"
    /\ mlast.op = "erase"
    /\ mlast.ret = 1
    /\ \E b \in RealBuckets(hmap) :
           /\ ProbedBucket(hmap, hmap.Buckets[b].first, 0) # b
           /\ IsEqual(hmap.Buckets[ProbedBucket(hmap, hmap.Buckets[b].first, 0)].first,
                      TombstoneKey)

\* C36: in every reachable state with capacity > 0 at least one bucket is
\* empty, and LookupBucketFor terminates for every key, present or absent,
\* the lookups issued by moveFromOldBuckets during a rehash included (a
\* lookup that does not terminate leaves the map with fail = "hang").
C36_LookupTerminates ==
    /\ hmap.fail # "hang"
    /\ (hmap.fail = "none" /\ getNumBukets(hmap) > 0) =>
           /\ EmptyBuckets(hmap) # {}
           /\ \A Val \in ProbedKeys : ~LookupBucketFor(hmap, Val).hang

\* C36, witness: a lookup of an absent key has returned from a table with a
\* single empty bucket.
C36_MissWithOneEmpty ==
    /\ hmap.fail = "none"
    /\ mlast.op = "lookup"
    /\ mlast.ret = 0
    /\ Cardinality(EmptyBuckets(hmap)) = 1

(***************************************************************************)
(* Hashing.                                                                *)
(***************************************************************************)
\* C39: for every argument list of hashable fixed-width values (total
\* length below, equal to and above 64 bytes, exact multiples of 64
\* included) hash_combine(v1, ..., vn) equals hash_combine_range over the
\* concatenation of the arguments' bytes, under the same seed; no byte of
\* the buffer is read before it is written, and combine_data never aborts.
C39_CombineIsRangeHash ==
    /\ ~mlast.helper.aborted
    /\ combine(mlast.helper) = hash_combine_range_impl(BytesFrom(0, mlast.bytes))
    /\ \A c \in 1..Len(combine(mlast.helper).data) :
           \A i \in 1..Len(combine(mlast.helper).data[c]) :
               combine(mlast.helper).data[c][i] # 0

\* C39, witness: an argument of 8 bytes has straddled the end of the second
\* chunk (bytes 125 .. 132).
C39_StraddledSecondChunk ==
    /\ mlast.bytes = 132
    /\ mlast.size = 8
    /\ mlast.helper.length = 128
    /\ mlast.helper.buffer_ptr = 4

(***************************************************************************)
(* SmallHashMap with other inline sizes.                                   *)
(***************************************************************************)
\* C40: for every power-of-two InlineBuckets, every call of
\* SmallHashMap::AllocateBuckets reached through default construction,
\* insert, operator[], erase, reserve and clear satisfies its assertion
\* Num > InlineBuckets, also when a tombstone refresh or a growth is
\* triggered while the map is inline.  (AllocateBuckets holds the only
\* assertion that these calls can fail on such a map.)
C40_AllocateBucketsAsserts == hmap.fail # "assert"
====
